---------------------------- MODULE Spec2Model ----------------------------
(***************************************************************************)
(* A model of the visual pathway of the `neuron` crate: ganglion layer     *)
(* (edge layer), V1 (orientation layer), V2 (corner / contour layer) and   *)
(* the pathway that owns them.                                             *)
(*                                                                         *)
(* Numbers.  The crate computes in f32.  The model computes in fixed       *)
(* point: a value v of the crate is the integer v * Unit, and a division   *)
(* truncates.  Thresholds of the code (0.5, 0.01, 1.0, ...) are written in *)
(* the same unit.  usize arithmetic is modelled with its failure: a        *)
(* subtraction below zero panics (debug build) or wraps (release build).   *)
(*                                                                         *)
(* Grids.  A Vec<Vec<T>> is a function from 0..h-1 to functions from       *)
(* 0..w-1, so that indices are the code's indices.                         *)
(***************************************************************************)
EXTENDS Integers, Sequences, FiniteSets, TLC

VARIABLES
    pc,             \* the operation of the layer under study that returned last
    image,          \* the image last given to GanglionLayer::process_image
    ganglion_layer, \* a GanglionLayer: cells, width, height
    edge_map,       \* the edge map: what the last call returned if it was
                    \* create_edge_map (<<>> if it returned no map), and the
                    \* &[Vec<f32>] given to detect_contours
    orientation_map, \* the &[Vec<Option<Orientation>>] given to V2Cortex::process
    v2_cortex,      \* a V2Cortex: corner_detectors, contour_detector, width,
                    \* height, and how its construction ended
    v2_response,    \* the V2Response the last V2Cortex::process returned
    tracer,         \* the locals of detect_contours / trace_contour, and a pc
    pathway,        \* a VisualPathway: width, height, and how its construction
                    \* ended; its layers are the variables cones,
                    \* ganglion_layer, v1_cortex and v2_cortex
    cones,          \* the Vec<Cone> of the pathway
    v1_cortex,      \* a V1Cortex: columns, width, height, and how its
                    \* construction ended
    cone_activations, \* VisualResponse::cone_activations of the last call
    features,       \* VisualResponse::features of the last call
    v4_cortex,      \* a V4Cortex: shape_detectors, width, height, and how its
                    \* construction ended
    v4_response,    \* the V4Response the last V4Cortex::process returned
    the_neuron,     \* a Neuron
    time_ms,        \* the simulation time given to the neuron last
    fired,          \* what generate_action_potential returned last
    label           \* what VisualFeatures::dominant_orientation returned last

vars == <<pc, image, ganglion_layer, edge_map, orientation_map, v2_cortex,
          v2_response, tracer, pathway, cones, v1_cortex, cone_activations,
          features, v4_cortex, v4_response, the_neuron, time_ms, fired, label>>

\* the variables of the V4 cortex and of the single neuron
v4Only == <<v4_cortex, v4_response>>
neuronOnly == <<the_neuron, time_ms, fired>>

\* the variables of the pathway that the layers under study alone do not use
pathwayOnly == <<pathway, cones, v1_cortex, cone_activations, features>>

\* what the contour tracer, the ganglion layer and the V2 cortex leave alone
notTracer == <<pc, image, ganglion_layer, orientation_map, v2_cortex, v2_response,
               pathwayOnly, v4Only, neuronOnly, label>>
notGanglion == <<orientation_map, v2_cortex, v2_response, tracer, pathwayOnly,
                 v4Only, neuronOnly, label>>
notV2 == <<image, ganglion_layer, tracer, pathwayOnly, v4Only, neuronOnly, label>>

-----------------------------------------------------------------------------
(* Units and small helpers *)

Unit == 100 * 100

Max2(a, b) == IF a >= b THEN a ELSE b

Min2(a, b) == IF a <= b THEN a ELSE b

Abs(a) == IF a < 0 THEN -a ELSE a

\* vec![vec![v; w]; h]
Grid(w, h, v) == [y \in 0 .. h - 1 |-> [x \in 0 .. w - 1 |-> v]]

\* image.len() and image[0].len()
GridHeight(g) == Cardinality(DOMAIN g)

GridWidth(g) == IF GridHeight(g) = 0 THEN 0 ELSE Cardinality(DOMAIN g[0])

InGrid(x, y, w, h) == x >= 0 /\ y >= 0 /\ x < w /\ y < h

\* the positions of a w x h grid
Pixels(w, h) == {<<x, y>> : x \in 0 .. w - 1, y \in 0 .. h - 1}

\* the sum of F(i) for i in lo..hi (summed by halves, so that a long sum
\* does not nest deeply)
RECURSIVE SumRange(_, _, _)
SumRange(F(_), lo, hi) ==
    IF lo > hi THEN 0
    ELSE IF lo = hi THEN F(lo)
    ELSE SumRange(F, lo, (lo + hi) \div 2) + SumRange(F, (lo + hi) \div 2 + 1, hi)

\* the element of a set of one element; {E(v) : v \in {e}} computes e once
\* before E is computed
Only(S) == CHOOSE e \in S : TRUE

\* (lo..hi).step_by(step), as a sequence
RECURSIVE StepBy(_, _, _)
StepBy(lo, hi, step) == IF lo >= hi THEN <<>> ELSE <<lo>> \o StepBy(lo + step, hi, step)

\* the concatenation of F(s[1]), F(s[2]), ...
RECURSIVE FlatMap(_, _)
FlatMap(F(_), s) ==
    IF s = <<>> THEN <<>>
    ELSE IF Len(s) = 1 THEN F(s[1])
    ELSE FlatMap(F, SubSeq(s, 1, Len(s) \div 2))
            \o FlatMap(F, SubSeq(s, Len(s) \div 2 + 1, Len(s)))

-----------------------------------------------------------------------------
(* GanglionCell and GanglionLayer.  A radius r is kept as 2 * r, so that   *)
(* 1.5 is the integer 3; `distance <= r` is 4 * (dx^2 + dy^2) <= (2r)^2.   *)

\* GanglionLayer::new(width, height, 4, 1.5, 4.0) in VisualPathway::new
GanglionSpacing == 4
CenterRadiusX2 == 3
SurroundRadiusX2 == 8

\* GanglionCell::new
NewGanglionCell(id, cell_type, x, y, center_radius_x2, surround_radius_x2) ==
    [id |-> id, cell_type |-> cell_type, x |-> x, y |-> y,
     center_radius_x2 |-> center_radius_x2,
     surround_radius_x2 |-> surround_radius_x2,
     center_activation |-> 0, surround_activation |-> 0, output_rate |-> 0]

\* `distance <= self.center_radius`
InCenter(center_radius_x2, dx, dy) ==
    4 * (dx * dx + dy * dy) <= center_radius_x2 * center_radius_x2

\* `else if distance <= self.surround_radius`
InSurround(center_radius_x2, surround_radius_x2, dx, dy) ==
    /\ ~InCenter(center_radius_x2, dx, dy)
    /\ 4 * (dx * dx + dy * dy) <= surround_radius_x2 * surround_radius_x2

\* the offsets <<dx, dy>> of the double loop of compute_response, dy outer
LoopOffsets(r) ==
    FlatMap(LAMBDA dy : [i \in 1 .. 2 * r + 1 |-> <<i - r - 1, dy>>],
            [i \in 1 .. 2 * r + 1 |-> i - r - 1])

\* the offsets of the two buckets of a receptive field;
\* `self.surround_radius as i32` bounds the loop
FieldOffsets(center_radius_x2, surround_radius_x2) ==
    LET offsets == LoopOffsets(surround_radius_x2 \div 2)
    IN  [center |-> SelectSeq(offsets,
                        LAMBDA o : InCenter(center_radius_x2, o[1], o[2])),
         surround |-> SelectSeq(offsets,
                        LAMBDA o : InSurround(center_radius_x2, surround_radius_x2,
                                              o[1], o[2]))]

\* the receptive field of the cells of the pathway
PathwayField == FieldOffsets(CenterRadiusX2, SurroundRadiusX2)

FieldOf(cell) ==
    IF cell.center_radius_x2 = CenterRadiusX2 /\ cell.surround_radius_x2 = SurroundRadiusX2
    THEN PathwayField
    ELSE FieldOffsets(cell.center_radius_x2, cell.surround_radius_x2)

\* <<sum, count>> of the in-bounds pixels at the offsets offs[i..] of (x, y)
RECURSIVE Accumulate(_, _, _, _, _, _, _, _)
Accumulate(img, w, h, x, y, offs, i, acc) ==
    IF i > Len(offs) THEN acc
    ELSE LET px == x + offs[i][1]
             py == y + offs[i][2]
         IN  Accumulate(img, w, h, x, y, offs, i + 1,
                        IF InGrid(px, py, w, h)
                        THEN <<acc[1] + img[py][px], acc[2] + 1>>
                        ELSE acc)

\* the mean of a bucket <<sum, count>>, 0 for a bucket without samples
BucketMean(bucket) == IF bucket[2] > 0 THEN bucket[1] \div bucket[2] ELSE 0

\* a difference that is center - surround whatever the type of the cell
response_strength_of_on_cell(cell) ==
    cell.center_activation - cell.surround_activation

\* GanglionCell::response_strength
response_strength(cell) ==
    IF cell.cell_type = "OnCenter"
    THEN cell.center_activation - cell.surround_activation
    ELSE cell.surround_activation - cell.center_activation

\* `(response * 100.0).max(0.0)`
Rectified(response) == Max2(response * 100, 0)

\* GanglionCell::compute_response
ganglion_compute_response(cell, img) ==
    IF GridHeight(img) = 0 THEN cell
    ELSE LET h == GridHeight(img)
             w == GridWidth(img)
             field == FieldOf(cell)
             center == Accumulate(img, w, h, cell.x, cell.y, field.center, 1, <<0, 0>>)
             surround == Accumulate(img, w, h, cell.x, cell.y, field.surround, 1, <<0, 0>>)
             sampled == [cell EXCEPT !.center_activation = BucketMean(center),
                                     !.surround_activation = BucketMean(surround)]
         IN  [sampled EXCEPT !.output_rate = Rectified(response_strength(sampled))]

\* the two cells GanglionLayer::new pushes at one position; n is the number
\* of positions before it
CellPair(n, x, y, center_radius_x2, surround_radius_x2) ==
    << NewGanglionCell(2 * n, "OnCenter", x, y, center_radius_x2, surround_radius_x2),
       NewGanglionCell(2 * n + 1, "OffCenter", x, y, center_radius_x2, surround_radius_x2) >>

\* the positions (0..height).step_by(spacing) x (0..width).step_by(spacing)
CellPositions(width, height, spacing) ==
    LET xs == StepBy(0, width, spacing)
    IN  FlatMap(LAMBDA y : [i \in 1 .. Len(xs) |-> <<xs[i], y>>],
                StepBy(0, height, spacing))

\* GanglionLayer::new
NewGanglionLayer(width, height, spacing, center_radius_x2, surround_radius_x2) ==
    LET ps == CellPositions(width, height, spacing)
    IN  [cells |-> FlatMap(LAMBDA n : CellPair(n - 1, ps[n][1], ps[n][2],
                                               center_radius_x2, surround_radius_x2),
                           [n \in 1 .. Len(ps) |-> n]),
         width |-> width, height |-> height]

\* a layer whose cells keep the response they have once it is not 0
process_image_retaining(layer, img) ==
    [layer EXCEPT !.cells = [i \in 1 .. Len(layer.cells) |->
                                IF layer.cells[i].center_activation # 0
                                THEN layer.cells[i]
                                ELSE ganglion_compute_response(layer.cells[i], img)]]

\* GanglionLayer::process_image
process_image(layer, img) ==
    [layer EXCEPT !.cells = [i \in 1 .. Len(layer.cells) |->
                                ganglion_compute_response(layer.cells[i], img)]]

\* a layer that adds the firing rate of a cell
EdgeContributionFiringRate(cell) == Abs(cell.output_rate)

\* what create_edge_map adds for one cell
EdgeContribution(cell) == Abs(response_strength(cell))

\* a layer that spreads a cell to the pixels next to it
EdgeValueSpreadAt(layer, x, y) ==
    SumRange(LAMBDA i : IF Abs(layer.cells[i].x - x) <= 1 /\ Abs(layer.cells[i].y - y) <= 1
                        THEN EdgeContribution(layer.cells[i]) ELSE 0,
             1, Len(layer.cells))

\* the value create_edge_map leaves at (x, y)
EdgeValueAt(layer, x, y) ==
    SumRange(LAMBDA i : IF layer.cells[i].x = x /\ layer.cells[i].y = y
                        THEN EdgeContribution(layer.cells[i]) ELSE 0,
             1, Len(layer.cells))

\* GanglionLayer::create_edge_map
create_edge_map(layer) ==
    [y \in 0 .. layer.height - 1 |->
        [x \in 0 .. layer.width - 1 |-> EdgeValueAt(layer, x, y)]]

-----------------------------------------------------------------------------
(* V2ContourDetector: detect_contours, trace_contour, dilate_edge_map *)

\* `dilated_map[y][x] > 0.5` in detect_contours
SeedThreshold == 5000

\* `edge_map[ny][nx] > 0.01` in trace_contour
FollowThreshold == 100

\* `for _ in 0..200` in trace_contour
MaxPathSteps == 200

\* V2ContourDetector::new(0, 3, 0.5) in V2Cortex::new
PathLength == 3

\* the 3x3 neighbourhood of dilate_edge_map, the centre included
Offsets9 == {<<dx, dy>> : dx \in -1 .. 1, dy \in -1 .. 1}

\* a scan that also looks two pixels to the right
WiderNeighbourOrder ==
    << <<2, 0>>,
       <<-1, -1>>, <<0, -1>>, <<1, -1>>,
       <<-1, 0>>,             <<1, 0>>,
       <<-1, 1>>,  <<0, 1>>,  <<1, 1>> >>

\* a scan with the loops exchanged: dx outer, dy inner
ColumnFirstNeighbourOrder ==
    << <<-1, -1>>, <<-1, 0>>, <<-1, 1>>,
       <<0, -1>>,             <<0, 1>>,
       <<1, -1>>,  <<1, 0>>,  <<1, 1>> >>

\* the scan order of the 8 neighbours in trace_contour: dy outer, dx inner
NeighbourOrder ==
    << <<-1, -1>>, <<0, -1>>, <<1, -1>>,
       <<-1, 0>>,             <<1, 0>>,
       <<-1, 1>>,  <<0, 1>>,  <<1, 1>> >>

RECURSIVE SetMax(_)
SetMax(S) ==
    LET a == CHOOSE e \in S : TRUE
    IN  IF S = {a} THEN a ELSE Max2(a, SetMax(S \ {a}))

dilate_edge_map(em) ==
    LET h == GridHeight(em)
        w == GridWidth(em)
    IN  [y \in 0 .. h - 1 |->
            [x \in 0 .. w - 1 |->
                SetMax({em[y + o[2]][x + o[1]] :
                            o \in {p \in Offsets9 : InGrid(x + p[1], y + p[2], w, h)}})]]

\* a tracer that forgets to test the visited flag
EligibleIgnoringVisited(map, visited, nx, ny) ==
    map[ny][nx] > FollowThreshold

\* the test `!visited[ny][nx] && edge_map[ny][nx] > 0.01` of trace_contour;
\* `map` is the map trace_contour was given
Eligible(map, visited, nx, ny) ==
    /\ ~visited[ny][nx]
    /\ map[ny][nx] > FollowThreshold

\* the inner double loop of trace_contour from neighbour number i on:
\* best = <<best_strength, best_neighbor>>, best_neighbor = <<>> for None
RECURSIVE ScanNeighbours(_, _, _, _, _, _)
ScanNeighbours(map, visited, cx, cy, i, best) ==
    IF i > Len(NeighbourOrder) THEN best
    ELSE LET nx == cx + NeighbourOrder[i][1]
             ny == cy + NeighbourOrder[i][2]
             w  == GridWidth(map)
             h  == GridHeight(map)
             better == /\ InGrid(nx, ny, w, h)
                       /\ Eligible(map, visited, nx, ny)
                       /\ map[ny][nx] > best[1]
         IN  ScanNeighbours(map, visited, cx, cy, i + 1,
                            IF better THEN <<map[ny][nx], <<nx, ny>>>> ELSE best)

BestNeighbour(map, visited, cx, cy) ==
    ScanNeighbours(map, visited, cx, cy, 1, <<0, <<>>>>)[2]

\* a loop without the cap
LoopExhaustedNever(iter) == FALSE

\* the `for _ in 0..200` loop has run out
LoopExhausted(iter) == iter >= MaxPathSteps

\* a detect_contours that keeps every trace
RetainedAlways(contour) == TRUE

\* `contour.len() >= self.path_length` in detect_contours
Retained(contour) == Len(contour) >= PathLength

MarkVisited(visited, x, y) == [visited EXCEPT ![y][x] = TRUE]

\* the state of a detect_contours call that has not started
TracerIdle ==
    [pc |-> "idle", dilated_map |-> <<>>, visited |-> <<>>, contours |-> <<>>,
     contour |-> <<>>, current |-> <<0, 0>>, iter |-> 0, scan |-> 0,
     activation |-> 0]

\* detect_contours up to the first pixel of the scan
TracerStart(t, em) ==
    IF GridHeight(em) = 0
    THEN [t EXCEPT !.pc = "done", !.contours = <<>>]
    ELSE [t EXCEPT !.pc = "scan",
                   !.dilated_map = dilate_edge_map(em),
                   !.visited = Grid(GridWidth(em), GridHeight(em), FALSE),
                   !.contours = <<>>, !.contour = <<>>, !.scan = 0, !.iter = 0]

\* one pixel of the row-major scan of detect_contours: it starts a trace
\* (the first lines of trace_contour) or moves on; after the last pixel the
\* activation is set and the contours are returned
TracerScan(t, em) ==
    LET h == GridHeight(em)
        w == GridWidth(em)
        x == t.scan % w
        y == t.scan \div w
    IN  IF w = 0 \/ t.scan >= w * h
        THEN [t EXCEPT !.pc = "done", !.activation = Len(t.contours) * 10 * Unit]
        ELSE IF t.dilated_map[y][x] > SeedThreshold /\ ~t.visited[y][x]
        THEN [t EXCEPT !.pc = "trace",
                       !.contour = <<<<x, y>>>>,
                       !.visited = MarkVisited(t.visited, x, y),
                       !.current = <<x, y>>,
                       !.iter = 0]
        ELSE [t EXCEPT !.scan = t.scan + 1]

\* one iteration of the loop of trace_contour; when the loop ends (no
\* neighbour, or 200 iterations done) the trace is returned to
\* detect_contours, which keeps it or drops it and scans on
TracerFollow(t) ==
    LET best == BestNeighbour(t.dilated_map, t.visited, t.current[1], t.current[2])
    IN  IF LoopExhausted(t.iter) \/ best = <<>>
        THEN [t EXCEPT !.pc = "scan",
                       !.contours = IF Retained(t.contour)
                                    THEN Append(t.contours, t.contour)
                                    ELSE t.contours,
                       !.contour = <<>>,
                       !.scan = t.scan + 1]
        ELSE [t EXCEPT !.contour = Append(t.contour, best),
                       !.visited = MarkVisited(t.visited, best[1], best[2]),
                       !.current = best,
                       !.iter = t.iter + 1]

-----------------------------------------------------------------------------
(* Detector grids.  `for y in (m..height - m).step_by(s)` with, inside it,  *)
(* `for x in (m..width - m).step_by(s)` subtracts in usize.  Below zero the *)
(* debug build panics; the release build wraps to about 2^64, and the loop  *)
(* then fills memory with detectors, or, where the inner range is empty,    *)
(* spins through 2^64 / s empty rounds unless the compiler removes them.    *)

\* how a construction can end other than by returning
Failures == {"panic", "out_of_memory", "no_return"}

\* the builds: overflow checks on, and off
Builds == {"debug", "release"}

\* the outcomes of the double loop: the positions <<x, y>>, y outer, in the
\* order the loop visits them, or a failure
GridLoopOutcomes(width, height, margin, step, build) ==
    LET ys == IF height >= margin THEN StepBy(margin, height - margin, step) ELSE <<>>
        xs == IF width >= margin THEN StepBy(margin, width - margin, step) ELSE <<>>
        done(ps) == [failure |-> "none", positions |-> ps]
        failed(f) == [failure |-> f, positions |-> <<>>]
    IN  IF height >= margin
        THEN IF ys = <<>> THEN {done(<<>>)}
             ELSE IF width >= margin
             THEN {done(FlatMap(LAMBDA y : [i \in 1 .. Len(xs) |-> <<xs[i], y>>], ys))}
             ELSE IF build = "debug" THEN {failed("panic")}
             ELSE {failed("out_of_memory")}
        ELSE IF build = "debug" THEN {failed("panic")}
             ELSE IF width >= margin /\ xs = <<>>
             THEN {failed("no_return"), done(<<>>)}
             ELSE {failed("out_of_memory")}

-----------------------------------------------------------------------------
(* V1Neuron, V1Column and V1Cortex.  The columns of V1Cortex::new prefer    *)
(* 0, 45, 90 and 135 degrees.  With dx, dy integers the two distances of    *)
(* compute_response are, for these angles,                                   *)
(*    0:   projected = |dx|,           perpendicular = |dy|                  *)
(*   90:   projected = |dy|,           perpendicular = |dx|                  *)
(*   45:   projected = |dx + dy| / r2, perpendicular = |dy - dx| / r2        *)
(*  135:   projected = |dy - dx| / r2, perpendicular = |dx + dy| / r2        *)
(* with r2 the square root of 2, but for one effect of f32: the cosine of   *)
(* 90 degrees is -4.37e-8, not 0, so that at dx = 2, dy <= -2 and at        *)
(* dx = -2, dy >= 2 the perpendicular distance of a 90 degree neuron rounds *)
(* to just below 2.0 and passes `perpendicular < 2.0`.                      *)

\* V1Cortex::new(width, height, 8, 5) in VisualPathway::new
V1Spacing == 8
V1RfSize == 5

\* the orientations of V1Cortex::new, in its order, in tenths of a degree
V1Orientations == <<0, 450, 900, 1350>>

\* the activation of a V1 neuron is kept to six decimal places: the sums of
\* extract_features are compared where they differ by a few percent of some
\* hundredths
ActivationUnit == 100 * Unit

\* `dominant.max_activation() > 0.1` in orientation_map
DominanceThreshold == ActivationUnit \div 10

\* exp(-perpendicular^2 / 2) for q = 2 * perpendicular^2
GaborWeight(q) ==
    CASE q = 0 -> 10000
      [] q = 1 -> 7788
      [] q = 2 -> 6065
      [] q = 4 -> 3679
      [] q = 8 -> 1353

\* the orientation_weight of compute_response
orientation_weight(deg, dx, dy, rf_radius) ==
    CASE deg = 0 ->
            IF Abs(dy) < 2 /\ Abs(dx) < rf_radius THEN GaborWeight(2 * dy * dy) ELSE 0
      [] deg = 900 ->
            IF Abs(dy) >= rf_radius THEN 0
            ELSE IF Abs(dx) < 2 THEN GaborWeight(2 * dx * dx)
            ELSE IF (dx = 2 /\ dy <= -2) \/ (dx = -2 /\ dy >= 2) THEN GaborWeight(8)
            ELSE 0
      [] deg = 450 ->
            IF (dy - dx) * (dy - dx) < 8 /\ (dx + dy) * (dx + dy) < 2 * rf_radius * rf_radius
            THEN GaborWeight((dy - dx) * (dy - dx)) ELSE 0
      [] deg = 1350 ->
            IF (dx + dy) * (dx + dy) < 8 /\ (dy - dx) * (dy - dx) < 2 * rf_radius * rf_radius
            THEN GaborWeight((dx + dy) * (dx + dy)) ELSE 0

\* V1Neuron::new
NewV1Neuron(id, neuron_type, x, y, preferred_orientation, receptive_field_size) ==
    [id |-> id, neuron_type |-> neuron_type, x |-> x, y |-> y,
     preferred_orientation |-> preferred_orientation,
     receptive_field_size |-> receptive_field_size, activation |-> 0]

\* whether a pass of the double loop of V1Neuron::compute_response reaches
\* `count += 1`: the pixel is in the map (`px < 0 || py < 0 || px >= width ||
\* py >= height => continue`) and in the disc (`distance >
\* self.receptive_field_size as f32 => continue`)
V1Sampled(neuron, w, h, dx, dy) ==
    /\ InGrid(neuron.x + dx, neuron.y + dy, w, h)
    /\ dx * dx + dy * dy <= neuron.receptive_field_size * neuron.receptive_field_size

\* what the pass adds to `response`: `edge_strength * orientation_weight`
V1Sample(neuron, em, w, h, dx, dy) ==
    IF V1Sampled(neuron, w, h, dx, dy)
    THEN (em[neuron.y + dy][neuron.x + dx]
            * orientation_weight(neuron.preferred_orientation, dx, dy,
                                 neuron.receptive_field_size)) \div ((Unit * Unit) \div ActivationUnit)
    ELSE 0

\* V1Neuron::compute_response
v1_compute_response(neuron, em) ==
    IF GridHeight(em) = 0 THEN neuron
    ELSE LET w == GridWidth(em)
             h == GridHeight(em)
             rf_radius == neuron.receptive_field_size
             response ==
                 SumRange(LAMBDA dy :
                     SumRange(LAMBDA dx : V1Sample(neuron, em, w, h, dx, dy),
                              0 - rf_radius, rf_radius),
                     0 - rf_radius, rf_radius)
             count ==
                 SumRange(LAMBDA dy :
                     SumRange(LAMBDA dx : IF V1Sampled(neuron, w, h, dx, dy)
                                           THEN 1 ELSE 0,
                              0 - rf_radius, rf_radius),
                     0 - rf_radius, rf_radius)
             mean == IF count > 0 THEN Max2(response \div count, 0) ELSE 0
         IN  [neuron EXCEPT !.activation =
                 IF neuron.neuron_type = "Complex" THEN (mean * 12) \div 10 ELSE mean]

\* V1Column::new
NewV1Column(start_id, x, y, orientation, rf_size) ==
    [neurons |-> << NewV1Neuron(start_id, "Simple", x, y, orientation, rf_size),
                    NewV1Neuron(start_id + 1, "Complex", x, y, orientation, rf_size + 2) >>,
     orientation |-> orientation]

\* V1Column::process
column_process(column, em) ==
    [column EXCEPT !.neurons = [i \in 1 .. Len(column.neurons) |->
                                   v1_compute_response(column.neurons[i], em)]]

\* V1Column::max_activation
max_activation(column) ==
    SetMax({0} \cup {column.neurons[i].activation : i \in 1 .. Len(column.neurons)})

\* the four columns V1Cortex::new pushes at position number n (from 0)
ColumnsAt(n, x, y, rf_size) ==
    [k \in 1 .. Len(V1Orientations) |->
        NewV1Column(10 * (4 * n + k - 1), x, y, V1Orientations[k], rf_size)]

\* V1Cortex::new: every way it can end
NewV1Cortex(width, height, spacing, rf_size, build) ==
    {[columns |->
          FlatMap(LAMBDA n : ColumnsAt(n - 1, o.positions[n][1], o.positions[n][2], rf_size),
                  [n \in 1 .. Len(o.positions) |-> n]),
      width |-> width, height |-> height, failure |-> o.failure] :
        o \in GridLoopOutcomes(width, height, rf_size, spacing, build)}

\* V1Cortex::process_edges
process_edges(cortex, em) ==
    [cortex EXCEPT !.columns = [i \in 1 .. Len(cortex.columns) |->
                                   column_process(cortex.columns[i], em)]]

\* the column `max_by` returns among the columns numbered in S: of several
\* columns of the greatest activation, the last
DominantColumn(cortex, S) ==
    CHOOSE i \in S :
        \A j \in S :
            \/ max_activation(cortex.columns[j]) < max_activation(cortex.columns[i])
            \/ (max_activation(cortex.columns[j]) = max_activation(cortex.columns[i]) /\ j <= i)

\* V1Cortex::orientation_map
orientation_map_of(cortex) ==
    [y \in 0 .. cortex.height - 1 |->
        [x \in 0 .. cortex.width - 1 |->
            LET here == {i \in 1 .. Len(cortex.columns) :
                            /\ cortex.columns[i].neurons[1].x = x
                            /\ cortex.columns[i].neurons[1].y = y}
            IN  IF here = {} THEN <<>>
                ELSE LET dominant == cortex.columns[DominantColumn(cortex, here)]
                     IN  IF max_activation(dominant) > DominanceThreshold
                         THEN <<dominant.orientation>>
                         ELSE <<>>]]

\* the keys of `position_map`, in the order of their first column
RECURSIVE ColumnPositionsFrom(_, _, _)
ColumnPositionsFrom(cortex, i, seen) ==
    IF i > Len(cortex.columns) THEN seen
    ELSE LET pos == <<cortex.columns[i].neurons[1].x, cortex.columns[i].neurons[1].y>>
         IN  ColumnPositionsFrom(cortex, i + 1,
                                 IF \E k \in 1 .. Len(seen) : seen[k] = pos
                                 THEN seen ELSE Append(seen, pos))

ColumnPositions(cortex) == ColumnPositionsFrom(cortex, 1, <<>>)

\* the orders in which the loop `for ((x, y), columns) in position_map` can
\* pass the keys
IterationOrders(keys) ==
    {[k \in 1 .. Len(keys) |-> keys[p[k]]] :
        p \in {q \in [1 .. Len(keys) -> 1 .. Len(keys)] :
                  \A a, b \in 1 .. Len(keys) : q[a] = q[b] => a = b}}

\* the value of `position_map` at a key: the columns there
ColumnsGroupedAt(cortex, pos) ==
    {i \in 1 .. Len(cortex.columns) :
        /\ cortex.columns[i].neurons[1].x = pos[1]
        /\ cortex.columns[i].neurons[1].y = pos[2]}

\* a map that records the dominant column whatever its activation
RECURSIVE WriteDominantUnconditionally(_, _, _, _)
WriteDominantUnconditionally(map, cortex, order, k) ==
    IF k > Len(order) THEN map
    ELSE LET dominant ==
                 cortex.columns[DominantColumn(cortex, ColumnsGroupedAt(cortex, order[k]))]
         IN  WriteDominantUnconditionally(
                 [map EXCEPT ![order[k][2]][order[k][1]] = <<dominant.orientation>>],
                 cortex, order, k + 1)

\* the loop of V1Cortex::orientation_map that writes the map, passing the
\* keys in the given order, from key number k on
RECURSIVE WriteDominant(_, _, _, _)
WriteDominant(map, cortex, order, k) ==
    IF k > Len(order) THEN map
    ELSE LET dominant ==
                 cortex.columns[DominantColumn(cortex, ColumnsGroupedAt(cortex, order[k]))]
         IN  WriteDominant(
                 IF max_activation(dominant) > DominanceThreshold
                 THEN [map EXCEPT ![order[k][2]][order[k][1]] = <<dominant.orientation>>]
                 ELSE map,
                 cortex, order, k + 1)

\* V1Cortex::orientation_map, when the HashMap yields its keys in the given
\* order
orientation_map_in(cortex, order) ==
    WriteDominant(Grid(cortex.width, cortex.height, <<>>), cortex, order, 1)

-----------------------------------------------------------------------------
(* V2CornerDetector and V2Cortex.  An angle is kept in tenths of a degree;  *)
(* an Option is <<>> for None and <<v>> for Some(v), but for the corner     *)
(* types, where None is the string "None".                                  *)

\* V2Cortex::new(width, height, 4) in VisualPathway::new
V2Spacing == 4

\* the receptive field size V2Cortex::new gives every corner detector
CornerRfSize == 6

\* `detector.activation() > 1.0` in V2Cortex::process
CornerThreshold == Unit

\* the corner types in the order of V2Cortex::new
CornerTypes == <<"LJunction", "TJunction", "XJunction", "YJunction">>

\* V2CornerDetector::new
NewV2CornerDetector(id, x, y, corner_type, rf_size) ==
    [id |-> id, x |-> x, y |-> y, corner_type |-> corner_type,
     receptive_field_size |-> rf_size, activation |-> 0]

\* `deg < 22.5 || deg > 157.5`
IsHorizontal(deg) == deg < 225 \/ deg > 1575

\* `(67.5..=112.5).contains(&deg)`
IsVertical(deg) == 675 <= deg /\ deg <= 1125

\* `(22.5..=67.5).contains(&deg)`
IsDiagonal45(deg) == 225 <= deg /\ deg <= 675

\* `(112.5..=157.5).contains(&deg)`, reached when the 45 degree test failed
IsDiagonal135(deg) == ~IsDiagonal45(deg) /\ 1125 <= deg /\ deg <= 1575

\* the angles of the oriented cells the double loop over -rf..=rf meets
\* inside the map, one entry per cell
WindowCells(detector, om, width, height) ==
    LET rf == detector.receptive_field_size
    IN  {p \in Pixels(width, height) :
            /\ Abs(p[1] - detector.x) <= rf
            /\ Abs(p[2] - detector.y) <= rf
            /\ om[p[2]][p[1]] # <<>>}

\* a strength without the cap
JunctionStrengthUncapped(count_a, count_b) ==
    IF count_a >= 1 /\ count_b >= 1
    THEN Min2(count_a, count_b) * 2 * Unit
    ELSE 0

\* `(count_a.min(count_b) as f32) * 2.0` capped at 100, or 0 without both
JunctionStrength(count_a, count_b) ==
    IF count_a >= 1 /\ count_b >= 1
    THEN Min2(Min2(count_a, count_b) * 2 * Unit, 100 * Unit)
    ELSE 0

\* V2CornerDetector::detect_l_junction
detect_l_junction(detector, om, width, height) ==
    IF detector.x >= width \/ detector.y >= height THEN 0
    ELSE LET cells == WindowCells(detector, om, width, height)
             horizontal_count ==
                 Cardinality({p \in cells : IsHorizontal(om[p[2]][p[1]][1])})
             vertical_count ==
                 Cardinality({p \in cells : /\ ~IsHorizontal(om[p[2]][p[1]][1])
                                            /\ IsVertical(om[p[2]][p[1]][1])})
         IN  JunctionStrength(horizontal_count, vertical_count)

\* a T score of half the L score
detect_t_junction_halved(detector, om, width, height) ==
    (detect_l_junction(detector, om, width, height) * 5) \div 10

\* V2CornerDetector::detect_t_junction
detect_t_junction(detector, om, width, height) ==
    (detect_l_junction(detector, om, width, height) * 8) \div 10

\* V2CornerDetector::detect_x_junction
detect_x_junction(detector, om, width, height) ==
    IF detector.x >= width \/ detector.y >= height THEN 0
    ELSE LET cells == WindowCells(detector, om, width, height)
             diagonal_45_count ==
                 Cardinality({p \in cells : IsDiagonal45(om[p[2]][p[1]][1])})
             diagonal_135_count ==
                 Cardinality({p \in cells : IsDiagonal135(om[p[2]][p[1]][1])})
         IN  JunctionStrength(diagonal_45_count, diagonal_135_count)

\* V2CornerDetector::detect_y_junction
detect_y_junction(detector, om, width, height) ==
    (((detect_l_junction(detector, om, width, height)
        + detect_x_junction(detector, om, width, height)) \div 2) * 7) \div 10

\* V2CornerDetector::compute_response
corner_compute_response(detector, om) ==
    IF GridHeight(om) = 0 THEN detector
    ELSE LET height == GridHeight(om)
             width == GridWidth(om)
         IN  [detector EXCEPT !.activation =
                CASE detector.corner_type = "LJunction" ->
                        detect_l_junction(detector, om, width, height)
                  [] detector.corner_type = "TJunction" ->
                        detect_t_junction(detector, om, width, height)
                  [] detector.corner_type = "XJunction" ->
                        detect_x_junction(detector, om, width, height)
                  [] detector.corner_type = "YJunction" ->
                        detect_y_junction(detector, om, width, height)]

\* V2ContourDetector::new
NewV2ContourDetector(id, path_length, curvature_threshold) ==
    [id |-> id, path_length |-> path_length,
     curvature_threshold |-> curvature_threshold, activation |-> 0]

\* the four detectors V2Cortex::new pushes at position number n (from 0)
CornerDetectorsAt(n, x, y) ==
    [k \in 1 .. Len(CornerTypes) |->
        NewV2CornerDetector(4 * n + k - 1, x, y, CornerTypes[k], CornerRfSize)]

\* V2Cortex::new: every way it can end
NewV2Cortex(width, height, spacing, build) ==
    {[corner_detectors |->
          FlatMap(LAMBDA n : CornerDetectorsAt(n - 1, o.positions[n][1], o.positions[n][2]),
                  [n \in 1 .. Len(o.positions) |-> n]),
      contour_detector |-> NewV2ContourDetector(0, PathLength, Unit \div 2),
      width |-> width, height |-> height, failure |-> o.failure] :
        o \in GridLoopOutcomes(width, height, spacing, spacing, build)}

\* trace_contour from its first iteration to its return to detect_contours
RECURSIVE RunTrace(_)
RunTrace(t) ==
    IF t.pc = "trace" THEN Only({RunTrace(next) : next \in {TracerFollow(t)}}) ELSE t

\* the scan of detect_contours over the pixels numbered lo..hi in row-major
\* order, with the traces that start there (the pixels are passed one after
\* the other; the range is halved so that a long scan does not nest deeply)
RECURSIVE ScanRange(_, _, _, _)
ScanRange(t, em, lo, hi) ==
    IF lo > hi THEN t
    ELSE IF lo = hi THEN RunTrace(TracerScan(t, em))
    ELSE Only({ScanRange(scanned, em, (lo + hi) \div 2 + 1, hi) :
                  scanned \in {ScanRange(t, em, lo, (lo + hi) \div 2)}})

\* detect_contours from its first line to its return
RunTracer(t, em) ==
    IF t.pc = "done" THEN t
    ELSE Only({TracerScan(scanned, em) :
                  scanned \in {ScanRange(t, em, 0, GridWidth(em) * GridHeight(em) - 1)}})

\* V2ContourDetector::detect_contours: the detector after the call and the
\* contours returned
detect_contours(detector, em) ==
    LET t == RunTracer(TracerStart([TracerIdle EXCEPT !.activation = detector.activation],
                                   em), em)
    IN  [detector |-> [detector EXCEPT !.activation = t.activation],
         contours |-> t.contours]

\* a corner map that keeps the first type written to a cell
RECURSIVE WriteCornersFirstWins(_, _, _, _)
WriteCornersFirstWins(corner_map, detectors, lo, hi) ==
    IF lo > hi THEN corner_map
    ELSE IF lo = hi
    THEN LET d == detectors[lo]
         IN  IF d.activation > CornerThreshold /\ corner_map[d.y][d.x] = "None"
             THEN [corner_map EXCEPT ![d.y][d.x] = d.corner_type]
             ELSE corner_map
    ELSE Only({WriteCornersFirstWins(written, detectors, (lo + hi) \div 2 + 1, hi) :
                  written \in {WriteCornersFirstWins(corner_map, detectors,
                                                      lo, (lo + hi) \div 2)}})

\* the loop of V2Cortex::process that writes the corner map, for the
\* detectors numbered lo..hi, one after the other (the range is halved so
\* that a long loop does not nest deeply)
RECURSIVE WriteCorners(_, _, _, _)
WriteCorners(corner_map, detectors, lo, hi) ==
    IF lo > hi THEN corner_map
    ELSE IF lo = hi
    THEN LET d == detectors[lo]
         IN  IF d.activation > CornerThreshold
             THEN [corner_map EXCEPT ![d.y][d.x] = d.corner_type]
             ELSE corner_map
    ELSE Only({WriteCorners(written, detectors, (lo + hi) \div 2 + 1, hi) :
                  written \in {WriteCorners(corner_map, detectors, lo, (lo + hi) \div 2)}})

\* V2Cortex::process: the cortex after the call and the V2Response
v2_process(cortex, om, em) ==
    LET detectors == [i \in 1 .. Len(cortex.corner_detectors) |->
                         corner_compute_response(cortex.corner_detectors[i], om)]
        traced == detect_contours(cortex.contour_detector, em)
    IN  [cortex |-> [cortex EXCEPT !.corner_detectors = detectors,
                                   !.contour_detector = traced.detector],
         response |->
            [corner_map |-> WriteCorners(Grid(cortex.width, cortex.height, "None"),
                                         detectors, 1, Len(detectors)),
             contours |-> traced.contours,
             corner_count |-> Cardinality({i \in 1 .. Len(detectors) :
                                             detectors[i].activation > CornerThreshold}),
             contour_count |-> Len(traced.contours)]]

-----------------------------------------------------------------------------
(* V4ShapeDetector and V4Cortex.  A detector reads a V2Response: the corner *)
(* map and the contours.  Activations are in Unit.                          *)

\* the shape types of V4Cortex::new, in its order
ShapeTypes == <<"Circle", "Rectangle", "Triangle", "Line", "Cross", "Complex">>

\* the receptive field size V4Cortex::new gives every detector
ShapeRfSize == 10

\* `detector.activation() > 5.0`
ShapeThreshold == 5 * Unit

\* V4ShapeDetector::new
NewV4ShapeDetector(id, x, y, shape_type, rf_size) ==
    [id |-> id, x |-> x, y |-> y, shape_type |-> shape_type,
     receptive_field_size |-> rf_size, activation |-> 0]

\* V4ShapeDetector::in_receptive_field
in_receptive_field(detector, x, y, rf) ==
    /\ x >= Max2(detector.x - rf, 0)
    /\ x <= detector.x + rf
    /\ y >= Max2(detector.y - rf, 0)
    /\ y <= detector.y + rf

\* the cells the double loop over the corner map visits:
\* `self.y.saturating_sub(rf)..=(self.y + rf).min(corner_map.len() - 1)` and
\* the same in x
CornerWindow(detector, response) ==
    LET rf == detector.receptive_field_size
    IN  {<<x, y>> :
            x \in Max2(detector.x - rf, 0)
                    .. Min2(detector.x + rf, GridWidth(response.corner_map) - 1),
            y \in Max2(detector.y - rf, 0)
                    .. Min2(detector.y + rf, GridHeight(response.corner_map) - 1)}

\* the number of cells of the window that hold one of the given corner types
CornersOfTypes(detector, response, types) ==
    Cardinality({p \in CornerWindow(detector, response) :
                    response.corner_map[p[2]][p[1]] \in types})

\* the number of cells of the window where `corner_map[y][x].is_some()`
CornersInWindow(detector, response) ==
    CornersOfTypes(detector, response, {"LJunction", "TJunction", "XJunction", "YJunction"})

\* `local_pixels.len()`: the pixels of a contour that are in the field
LocalPixels(detector, contour) ==
    Cardinality({i \in 1 .. Len(contour) :
                    in_receptive_field(detector, contour[i][1], contour[i][2],
                                       detector.receptive_field_size)})

\* `contour_pixels`: the local pixels of all contours
ContourPixels(detector, response) ==
    SumRange(LAMBDA k : LocalPixels(detector, response.contours[k]),
             1, Len(response.contours))

\* `longest_contour`: the most local pixels of one contour
LongestContour(detector, response) ==
    SetMax({0} \cup {LocalPixels(detector, response.contours[k]) :
                        k \in 1 .. Len(response.contours)})

\* `contour_segments`, `contour_count`: the contours with a pixel in the field
ContourSegments(detector, response) ==
    Cardinality({k \in 1 .. Len(response.contours) :
                    LocalPixels(detector, response.contours[k]) > 0})

\* V4ShapeDetector::detect_circle
detect_circle(detector, response) ==
    LET rf == detector.receptive_field_size
        contour_pixels == ContourPixels(detector, response)
        corner_count == CornersInWindow(detector, response)
        longest_contour == LongestContour(detector, response)
        \* corner_count / contour_pixels, in Unit
        corner_to_contour_ratio ==
            IF contour_pixels > 0 THEN (corner_count * Unit) \div contour_pixels
            ELSE Unit
        smoothness_score == (Unit - corner_to_contour_ratio * 10) * 25
        \* `contour_density > 0.15`: contour_pixels / (rf * rf) > 15 / 100
        density_bonus == IF contour_pixels * 100 > 15 * rf * rf THEN 5 * Unit ELSE 0
    \* `corner_to_contour_ratio < 0.08 && contour_density > 0.08`, compared
    \* as fractions
    IN  IF /\ contour_pixels >= 20
           /\ corner_count * 100 < 8 * contour_pixels
           /\ contour_pixels * 100 > 8 * rf * rf
        THEN Min2(Max2(smoothness_score + density_bonus, 10 * Unit), 25 * Unit)
        ELSE IF longest_contour >= 6 /\ corner_count <= 3 /\ contour_pixels < 35
        THEN IF longest_contour * 10 > 3 * Max2(contour_pixels, 1)
             THEN Min2((longest_contour * 15 * Unit) \div 10, 18 * Unit)
             ELSE 0
        ELSE 0

\* V4ShapeDetector::detect_rectangle
detect_rectangle(detector, response) ==
    LET l_junction_count == CornersOfTypes(detector, response, {"LJunction"})
        x_junction_count == CornersOfTypes(detector, response, {"XJunction"})
        contour_segments == ContourSegments(detector, response)
    IN  IF l_junction_count >= 3 /\ contour_segments >= 3
        THEN Min2(((l_junction_count + contour_segments) * 15 * Unit) \div 10, 25 * Unit)
        ELSE IF x_junction_count >= 2 /\ contour_segments >= 2
        THEN Min2((x_junction_count + contour_segments) * Unit, 20 * Unit)
        ELSE 0

\* V4ShapeDetector::detect_triangle
detect_triangle(detector, response) ==
    LET total_corners == CornersOfTypes(detector, response, {"LJunction", "YJunction"})
        contour_segments == ContourSegments(detector, response)
    IN  IF total_corners = 3 /\ contour_segments >= 3
        THEN Min2((total_corners + contour_segments) * 2 * Unit, 20 * Unit)
        ELSE IF total_corners >= 2 /\ total_corners <= 4 /\ contour_segments >= 2
        THEN Min2((total_corners + contour_segments) * Unit, 15 * Unit)
        ELSE 0

\* V4ShapeDetector::detect_line
detect_line(detector, response) ==
    LET longest_contour == LongestContour(detector, response)
        corner_count == CornersInWindow(detector, response)
    IN  IF longest_contour > 8 /\ corner_count <= 4
        THEN Min2(Max2((longest_contour * 9 * Unit) \div 10
                          - (corner_count * 5 * Unit) \div 10,
                       5 * Unit),
                  20 * Unit)
        ELSE IF longest_contour > 5 /\ corner_count <= 2
        THEN Min2((longest_contour * 7 * Unit) \div 10, 15 * Unit)
        ELSE 0

\* V4ShapeDetector::detect_cross
detect_cross(detector, response) ==
    LET x_junction_count == CornersOfTypes(detector, response, {"XJunction"})
        t_junction_count == CornersOfTypes(detector, response, {"TJunction"})
        contour_count == ContourSegments(detector, response)
    IN  IF x_junction_count >= 1 /\ contour_count >= 3
        THEN Min2((x_junction_count * 5 + contour_count) * Unit, 25 * Unit)
        ELSE IF t_junction_count >= 2 /\ contour_count >= 3
        THEN Min2((t_junction_count * 3 + contour_count) * Unit, 20 * Unit)
        ELSE 0

\* V4ShapeDetector::detect_complex
detect_complex(detector, response) ==
    LET total_corners == CornersInWindow(detector, response)
        contour_count == ContourSegments(detector, response)
    IN  IF total_corners > 6 /\ contour_count > 5
        THEN Min2(((total_corners + contour_count) * 5 * Unit) \div 10, 20 * Unit)
        ELSE 0

\* V4ShapeDetector::compute_response
shape_compute_response(detector, response) ==
    [detector EXCEPT !.activation =
        CASE detector.shape_type = "Circle" -> detect_circle(detector, response)
          [] detector.shape_type = "Rectangle" -> detect_rectangle(detector, response)
          [] detector.shape_type = "Triangle" -> detect_triangle(detector, response)
          [] detector.shape_type = "Line" -> detect_line(detector, response)
          [] detector.shape_type = "Cross" -> detect_cross(detector, response)
          [] detector.shape_type = "Complex" -> detect_complex(detector, response)]

\* the six detectors V4Cortex::new pushes at position number n (from 0)
ShapeDetectorsAt(n, x, y) ==
    [k \in 1 .. Len(ShapeTypes) |->
        NewV4ShapeDetector(6 * n + k - 1, x, y, ShapeTypes[k], ShapeRfSize)]

\* V4Cortex::new: every way it can end
NewV4Cortex(width, height, spacing, build) ==
    {[shape_detectors |->
          FlatMap(LAMBDA n : ShapeDetectorsAt(n - 1, o.positions[n][1], o.positions[n][2]),
                  [n \in 1 .. Len(o.positions) |-> n]),
      width |-> width, height |-> height, failure |-> o.failure] :
        o \in GridLoopOutcomes(width, height, spacing, spacing, build)}

\* `type_activations`: for each shape type with a detector above the
\* threshold, the number of such detectors
shape_type_counts_of(detectors) ==
    LET above(shape_type) == {i \in 1 .. Len(detectors) :
                                 /\ detectors[i].shape_type = shape_type
                                 /\ detectors[i].activation > ShapeThreshold}
        counted == {ShapeTypes[k] : k \in {j \in 1 .. Len(ShapeTypes) :
                                              above(ShapeTypes[j]) # {}}}
    IN  [shape_type \in counted |-> Cardinality(above(shape_type))]

\* the detectors at (x, y), in the order of the Vec
ShapeDetectorsAtCell(detectors, x, y) == SelectSeq(detectors, LAMBDA d : d.x = x /\ d.y = y)

\* a cell that lets the last detector above the threshold win
RECURSIVE KeepLast(_, _, _)
KeepLast(cell, here, k) ==
    IF k > Len(here) THEN cell
    ELSE KeepLast(IF here[k].activation > ShapeThreshold
                  THEN [activation |-> here[k].activation,
                        shape_type |-> here[k].shape_type]
                  ELSE cell,
                  here, k + 1)

\* what the loop of V4Cortex::process that writes the maps leaves in
\* activation_map[y][x] and shape_map[y][x]: it passes the detectors in the
\* order of the Vec, `here` are those at (x, y), and it has come to number k
\* of them
RECURSIVE KeepStrongest(_, _, _)
KeepStrongest(cell, here, k) ==
    IF k > Len(here) THEN cell
    ELSE KeepStrongest(IF /\ here[k].activation > ShapeThreshold
                          /\ here[k].activation > cell.activation
                       THEN [activation |-> here[k].activation,
                             shape_type |-> here[k].shape_type]
                       ELSE cell,
                       here, k + 1)

\* the shape map the loop leaves
shape_map_of(detectors, width, height) ==
    [y \in 0 .. height - 1 |-> [x \in 0 .. width - 1 |->
        KeepStrongest([activation |-> 0, shape_type |-> "None"],
                      ShapeDetectorsAtCell(detectors, x, y), 1).shape_type]]

\* a count of the positions with a detector above the threshold
shape_positions_of(detectors, width, height) ==
    Cardinality({<<detectors[i].x, detectors[i].y>> :
                    i \in {j \in 1 .. Len(detectors) :
                              /\ detectors[j].activation > ShapeThreshold
                              /\ detectors[j].x < width
                              /\ detectors[j].y < height}})

\* the shape_count the loop leaves: one for every detector above the
\* threshold whose position is in the field
shape_count_of(detectors, width, height) ==
    Cardinality({i \in 1 .. Len(detectors) :
                    /\ detectors[i].activation > ShapeThreshold
                    /\ detectors[i].x < width
                    /\ detectors[i].y < height})

\* V4Cortex::process: the cortex after the call and the V4Response
v4_process(cortex, response) ==
    LET detectors == [i \in 1 .. Len(cortex.shape_detectors) |->
                         shape_compute_response(cortex.shape_detectors[i], response)]
    IN  [cortex |-> [cortex EXCEPT !.shape_detectors = detectors],
         response |-> [shape_map |-> shape_map_of(detectors, cortex.width, cortex.height),
                       shape_count |-> shape_count_of(detectors, cortex.width,
                                                      cortex.height),
                       shape_type_counts |-> shape_type_counts_of(detectors)]]

-----------------------------------------------------------------------------
(* Cone.  Potentials, cGMP, glutamate, ATP and light intensities are in     *)
(* Unit as well; a product of two such values divides each factor by 100    *)
(* first, so that it stays inside the integers of the model checker.        *)

\* `value.clamp(lo, hi)`
Clamp(value, lo, hi) == Max2(lo, Min2(value, hi))

\* the cone type VisualPathway::new gives the pixel (x, y)
ConeTypeAt(x, y) ==
    CASE (x + y) % 10 = 0 -> "S"
      [] (x + y) % 10 \in 1 .. 4 -> "M"
      [] OTHER -> "L"

\* ConeType::spectral_sensitivity at the 555 nm of LightStimulus::white_light:
\* exp(-(555 - peak)^2 / (2 width^2)), which is 0.00004, 0.8226 and 0.9922
spectral_sensitivity(cone_type) ==
    CASE cone_type = "S" -> 0
      [] cone_type = "M" -> 8226
      [] cone_type = "L" -> 9922

\* Cone::new
NewCone(id, cone_type) ==
    [id |-> id, cone_type |-> cone_type,
     membrane_potential |-> 0 - 40 * Unit,
     cgmp_level |-> 100 * Unit,
     glutamate_release |-> 100 * Unit,
     adaptation_level |-> 0,
     inner_segment_atp |-> 100 * Unit]

\* Cone::phototransduction for white light of the given intensity
phototransduction(cone, intensity) ==
    LET effective_intensity ==
            ((intensity \div 100) * spectral_sensitivity(cone.cone_type)) \div 100
        adapted_intensity ==
            ((effective_intensity \div 100)
                * (Unit - (cone.adaptation_level * 7) \div 10)) \div 100
        target_cgmp == 100 * Unit - Clamp(adapted_intensity \div 10, 0, 90 * Unit)
        cgmp_level ==
            Clamp(cone.cgmp_level + ((target_cgmp - cone.cgmp_level) * 3) \div 10,
                  10 * Unit, 100 * Unit)
        membrane_potential == (30 * cgmp_level) \div 100 - 70 * Unit
        target_adaptation == Clamp(effective_intensity \div 100, 0, Unit)
    IN  [cone EXCEPT
            !.cgmp_level = cgmp_level,
            !.membrane_potential = membrane_potential,
            !.glutamate_release = 10 * Unit + (90 * (membrane_potential + 70 * Unit)) \div 30,
            !.adaptation_level =
                cone.adaptation_level + (target_adaptation - cone.adaptation_level) \div 100,
            !.inner_segment_atp = Max2(cone.inner_segment_atp - Unit \div 10, 20 * Unit)]

\* Cone::response_level
response_level(cone) ==
    Min2(((0 - 40 * Unit - cone.membrane_potential) * 50) \div 30, Unit)

-----------------------------------------------------------------------------
(* VisualPathway *)

\* VisualPathway::new: every way it can end.  The layers are built in the
\* order cones, ganglion layer, V1, V2; a layer after a failure is not built
\* (it is <<>>).
NewVisualPathway(width, height, build) ==
    LET new_cones == [i \in 1 .. width * height |->
                         NewCone(i - 1, ConeTypeAt((i - 1) % width, (i - 1) \div width))]
        layer == NewGanglionLayer(width, height, GanglionSpacing,
                                  CenterRadiusX2, SurroundRadiusX2)
        made(v1, v2, failure) ==
            [pathway |-> [width |-> width, height |-> height, failure |-> failure],
             cones |-> new_cones, ganglion_layer |-> layer,
             v1_cortex |-> v1, v2_cortex |-> v2]
    IN  UNION {IF v1.failure # "none" THEN {made(v1, <<>>, v1.failure)}
               ELSE {made(v1, v2, v2.failure) :
                        v2 \in NewV2Cortex(width, height, V2Spacing, build)} :
                 v1 \in NewV1Cortex(width, height, V1Spacing, V1RfSize, build)}

\* the cone at index idx is given light: `y < light_pattern.len() &&
\* x < light_pattern[0].len()`
Stimulated(idx, width, img) ==
    /\ idx \div width < GridHeight(img)
    /\ idx % width < GridWidth(img)

\* `intensity * 100.0` in process_grayscale_image, and the `intensity.max(0.0)`
\* of LightStimulus::new
white_light_of(intensity) == Max2(intensity * 100, 0)

\* VisualPathway::process_phototransduction for the light pattern
\* process_grayscale_image makes of img: the cones after it
cones_after(the_cones, width, img) ==
    [i \in 1 .. Len(the_cones) |->
        IF Stimulated(i - 1, width, img)
        THEN phototransduction(the_cones[i],
                               white_light_of(img[(i - 1) \div width][(i - 1) % width]))
        ELSE the_cones[i]]

\* VisualPathway::process_phototransduction: the activations it returns,
\* given the cones after it
activations_of(the_cones, width, height, img) ==
    [y \in 0 .. height - 1 |->
        [x \in 0 .. width - 1 |->
            IF Stimulated(y * width + x, width, img)
            THEN response_level(the_cones[y * width + x + 1])
            ELSE 0]]

\* accumulators named after the angle of the column, not after the
\* structure it answers to
FeatureBandOfAngle(deg) ==
    IF deg < 225 \/ deg > 1575 THEN "horizontal"
    ELSE IF 675 <= deg /\ deg <= 1125 THEN "vertical"
    ELSE "diagonal"

\* the accumulator extract_features adds a column of orientation deg to
FeatureBand(deg) ==
    IF deg < 225 \/ deg > 1575 THEN "vertical"
    ELSE IF 675 <= deg /\ deg <= 1125 THEN "horizontal"
    ELSE "diagonal"

\* the sum of max_activation over the columns of the bands in `bands`
BandStrength(cortex, bands) ==
    SumRange(LAMBDA i : IF FeatureBand(cortex.columns[i].orientation) \in bands
                        THEN max_activation(cortex.columns[i]) ELSE 0,
             1, Len(cortex.columns))

\* features whose diagonal sum is left as it is
extract_features_unscaled(cortex) ==
    [horizontal_strength |-> BandStrength(cortex, {"horizontal"}),
     vertical_strength |-> BandStrength(cortex, {"vertical"}),
     diagonal_strength |-> BandStrength(cortex, {"diagonal"}),
     total_activation |-> BandStrength(cortex, {"horizontal", "vertical", "diagonal"})]

\* VisualPathway::extract_features
extract_features(cortex) ==
    [horizontal_strength |-> BandStrength(cortex, {"horizontal"}),
     vertical_strength |-> BandStrength(cortex, {"vertical"}),
     diagonal_strength |-> (BandStrength(cortex, {"diagonal"}) * 4) \div 9,
     total_activation |-> BandStrength(cortex, {"horizontal", "vertical", "diagonal"})]

\* `strength * threshold` with threshold = 1.06, in hundredths of the unit
\* the strength is held in.  The f32 product is rounded to a float; a
\* strength is held as a whole number of units, and the product is rounded
\* to the nearest whole number of units.  Where the unit is the spacing of
\* the floats around the strength this is the rounding of the code: the f32
\* nearest to 1.06 is 8891924 / 2^23, a little less than 1.06, so that a
\* product halfway between two floats goes down.
TimesThreshold(strength) == ((strength * 106 + 49) \div 100) * 100

\* VisualFeatures::dominant_orientation
dominant_orientation(f) ==
    IF /\ f.horizontal_strength > f.vertical_strength
       /\ TimesThreshold(f.horizontal_strength) > f.diagonal_strength * 100
    THEN "Horizontal"
    ELSE IF /\ TimesThreshold(f.vertical_strength) > f.horizontal_strength * 100
            /\ TimesThreshold(f.vertical_strength) > f.diagonal_strength * 100
    THEN "Vertical"
    ELSE "Diagonal"

\* test_patterns::vertical_bar
vertical_bar(width, height) ==
    LET bar_width == width \div 4
        bar_start == width \div 2 - bar_width \div 2
    IN  [y \in 0 .. height - 1 |->
            [x \in 0 .. width - 1 |->
                IF bar_start <= x /\ x < bar_start + bar_width THEN Unit ELSE 0]]

\* stages 2 to 5 of VisualPathway::process_scene: the layers after them and
\* what they put into the VisualResponse
process_stages(layer, v1, v2, activations) ==
    LET layer_after == process_image(layer, activations)
        em == create_edge_map(layer_after)
        v1_after == process_edges(v1, em)
        om == orientation_map_of(v1_after)
        v2_result == v2_process(v2, om, em)
    IN  [ganglion_layer |-> layer_after, edge_map |-> em,
         v1_cortex |-> v1_after, orientation_map |-> om,
         v2_cortex |-> v2_result.cortex, v2_features |-> v2_result.response,
         features |-> extract_features(v1_after)]

\* VisualPathway::process_grayscale_image, which is process_scene on white
\* light: the layers after the call and the VisualResponse
process_grayscale_image(the_cones, layer, v1, v2, width, height, img) ==
    LET cones_now == cones_after(the_cones, width, img)
        activations == activations_of(cones_now, width, height, img)
        stages == process_stages(layer, v1, v2, activations)
    IN  [cones |-> cones_now, cone_activations |-> activations, stages |-> stages]

-----------------------------------------------------------------------------
(* The inputs of the contour tracer *)

MaxW == 3
MaxH == 2
MaxLit == 2
StripLen == 205

\* 0, exactly 0.01, between the thresholds, exactly 0.5, and two seeds
EdgeLevels == {0, 100, 3000, 5000, 6000, 9000}

\* the values of the lit pixels of a sparse map: one that is followed but
\* starts no trace, and two seeds of different strength
SparseLevels == {3000, 6000, 9000}

\* the maps with at most n pixels that are not 0
SparseMaps(w, h, n) ==
    {[y \in 0 .. h - 1 |-> [x \in 0 .. w - 1 |->
            IF <<x, y>> \in DOMAIN a THEN a[<<x, y>>] ELSE 0]] :
        a \in UNION {[S -> SparseLevels] :
                        S \in {T \in SUBSET Pixels(w, h) : Cardinality(T) <= n}}}

SaturatedMaps(w, h) == {Grid(w, h, v) : v \in EdgeLevels}

EdgeInputs ==
    (UNION {SparseMaps(w, h, MaxLit) \cup SaturatedMaps(w, h) :
                w \in 0 .. MaxW, h \in 0 .. MaxH})
    \cup SaturatedMaps(StripLen, 1)
    \cup SaturatedMaps(1, StripLen)

-----------------------------------------------------------------------------
(* The contour tracer, step by step *)

\* no ganglion layer in the specifications that do not build one
NoGanglion ==
    /\ pc = "none"
    /\ image = <<>>
    /\ ganglion_layer = [cells |-> <<>>, width |-> 0, height |-> 0]

\* no pathway in the specifications that do not build one
NoPathway ==
    /\ pathway = <<>>
    /\ cones = <<>>
    /\ v1_cortex = <<>>
    /\ cone_activations = <<>>
    /\ features = <<>>

\* no V4 cortex in the specifications that do not build one
NoV4 ==
    /\ v4_cortex = <<>>
    /\ v4_response = <<>>

\* no neuron in the specifications that do not make one
\* dominant_orientation has not been asked
NoLabel == label = "none"

NoNeuron ==
    /\ the_neuron = <<>>
    /\ time_ms = 0
    /\ fired = "none"

\* no V2 cortex in the specifications that do not build one
NoV2 ==
    /\ orientation_map = <<>>
    /\ v2_cortex = [corner_detectors |-> <<>>, width |-> 0, height |-> 0]
    /\ v2_response = <<>>

InitTrace ==
    /\ edge_map \in EdgeInputs
    /\ tracer = TracerIdle
    /\ NoGanglion
    /\ NoV2
    /\ NoPathway
    /\ NoV4
    /\ NoNeuron
    /\ NoLabel

DetectContours ==
    /\ tracer.pc = "idle"
    /\ tracer' = TracerStart(tracer, edge_map)
    /\ UNCHANGED <<edge_map, notTracer>>

ScanPixel ==
    /\ tracer.pc = "scan"
    /\ tracer' = TracerScan(tracer, edge_map)
    /\ UNCHANGED <<edge_map, notTracer>>

FollowContour ==
    /\ tracer.pc = "trace"
    /\ tracer' = TracerFollow(tracer)
    /\ UNCHANGED <<edge_map, notTracer>>

NextTrace == DetectContours \/ ScanPixel \/ FollowContour

SpecTrace == InitTrace /\ [][NextTrace]_vars

-----------------------------------------------------------------------------
(* The ganglion layer: a layer is built, then images are processed and edge *)
(* maps are made, in any order                                              *)

MaxGW == 5
MaxGH == 3

\* the spacing of the pathway, and a smaller one
GanglionSpacings == {2, GanglionSpacing}

\* dark, two greys and white
Intensities == {0, 2500, 5000, 10000}

\* the <<lo, hi>> of a pattern
Contrasts == {<<0, 10000>>, <<5000, 2500>>}

UniformImage(w, h, v) == Grid(w, h, v)

\* lo everywhere but hi at (px, py)
SpotImage(w, h, px, py, c) ==
    [y \in 0 .. h - 1 |-> [x \in 0 .. w - 1 |->
        IF x = px /\ y = py THEN c[2] ELSE c[1]]]

\* lo left of column k, hi from column k on
VerticalEdgeImage(w, h, k, c) ==
    [y \in 0 .. h - 1 |-> [x \in 0 .. w - 1 |-> IF x < k THEN c[1] ELSE c[2]]]

\* lo above row k, hi from row k on
HorizontalEdgeImage(w, h, k, c) ==
    [y \in 0 .. h - 1 |-> [x \in 0 .. w - 1 |-> IF y < k THEN c[1] ELSE c[2]]]

\* the places of a spot: the corners and the middle
SpotPlaces(w, h) ==
    {p \in Pixels(w, h) : /\ p[1] \in {0, w \div 2, w - 1}
                          /\ p[2] \in {0, h \div 2, h - 1}
                          /\ (p[1] = w \div 2) = (p[2] = h \div 2)}

\* the images of a w x h field, and the image without rows
Images(w, h) ==
    {UniformImage(w, h, v) : v \in Intensities}
    \cup {SpotImage(w, h, p[1], p[2], c) : p \in SpotPlaces(w, h), c \in Contrasts}
    \cup {VerticalEdgeImage(w, h, k, c) : k \in {1, w \div 2} \cap (1 .. w - 1), c \in Contrasts}
    \cup {HorizontalEdgeImage(w, h, k, c) : k \in {1, h \div 2} \cap (1 .. h - 1), c \in Contrasts}
    \cup {<<>>}

InitGanglion ==
    /\ pc = "new"
    /\ image = <<>>
    /\ \E w \in 0 .. MaxGW, h \in 0 .. MaxGH, spacing \in GanglionSpacings :
          ganglion_layer = NewGanglionLayer(w, h, spacing, CenterRadiusX2, SurroundRadiusX2)
    /\ edge_map = <<>>
    /\ tracer = TracerIdle
    /\ NoV2
    /\ NoPathway
    /\ NoV4
    /\ NoNeuron
    /\ NoLabel

\* layer.process_image(&image), which returns no map
ProcessImage ==
    /\ \E img \in Images(ganglion_layer.width, ganglion_layer.height) :
          /\ image' = img
          /\ ganglion_layer' = process_image(ganglion_layer, img)
    /\ pc' = "process_image"
    /\ edge_map' = <<>>
    /\ UNCHANGED notGanglion

\* edge_map = layer.create_edge_map()
CreateEdgeMap ==
    /\ edge_map' = create_edge_map(ganglion_layer)
    /\ pc' = "create_edge_map"
    /\ UNCHANGED <<image, ganglion_layer, notGanglion>>

NextGanglion == ProcessImage \/ CreateEdgeMap

SpecGanglion == InitGanglion /\ [][NextGanglion]_vars

-----------------------------------------------------------------------------
(* The V2 cortex: a cortex is built and given an orientation map and an     *)
(* edge map of its size; it processes them, and is given further frames     *)

MaxVW == 4
MaxVH == 3

\* a spacing that leaves room for detectors on small grids, and the
\* spacing of the pathway
V2Spacings == {1, V2Spacing}

\* 0, the edge of the 45 degree band, 90 and 135 degrees
Angles == {0, 225, 900, 1350}

\* how many cells of an orientation map are oriented
OrientedCounts == {0, 1, 2}

\* the orientation maps of a w x h field with n oriented cells, all of
\* them among `places`
OrientationMapsOn(w, h, places, n) ==
    {[y \in 0 .. h - 1 |-> [x \in 0 .. w - 1 |->
            IF <<x, y>> \in DOMAIN a THEN <<a[<<x, y>>]>> ELSE <<>>]] :
        a \in UNION {[S -> Angles] :
                        S \in {T \in SUBSET places : Cardinality(T) = n}}}

\* an orientation map whose every cell has the angle deg
FullOrientationMap(w, h, deg) == Grid(w, h, <<deg>>)

\* the angles a patterned map cycles through
AngleCycle == <<0, 900, 225, 1350>>

\* the maps whose cells cycle, in row-major order, through the first 2 or
\* through all 4 angles of AngleCycle
PatternMaps(w, h) ==
    {[y \in 0 .. h - 1 |-> [x \in 0 .. w - 1 |-> <<AngleCycle[((x + y * w) % n) + 1]>>]] :
        n \in {2, Len(AngleCycle)}}

\* the width of a strip in which the detector at x = 1 does not see the
\* cells of the last column
StripWidth == CornerRfSize + 3

\* a field in which the window of the detector at (8, 4) holds more than
\* 100 cells and leaves the field above and below
WideWidth == 2 * CornerRfSize + V2Spacing
WideHeight == 2 * V2Spacing + 1

\* the patterned maps of the wide field, whole and with one cell of the top
\* row emptied
WideMaps ==
    PatternMaps(WideWidth, WideHeight)
    \cup {[om EXCEPT ![0][2 * V2Spacing] = <<>>] : om \in PatternMaps(WideWidth, WideHeight)}

\* the first frame <<orientation map, edge map>> a cortex of w x h is
\* given: a patterned map with an edge map that has nothing to trace or
\* whose every pixel is a seed, or a map with few oriented cells (on a strip
\* they are in the corners) with an edge map of zeros; the wide field is
\* given its patterned maps with an edge map of zeros
V2Inputs(w, h) ==
    IF w = WideWidth
    THEN {<<om, Grid(w, h, 0)>> : om \in WideMaps}
    ELSE
    {<<om, em>> : om \in PatternMaps(w, h), em \in {Grid(w, h, 0), Grid(w, h, 6000)}}
    \cup {<<om, Grid(w, h, 0)>> :
            om \in UNION {OrientationMapsOn(w, h,
                            IF w = StripWidth
                            THEN {p \in Pixels(w, h) : p[1] \in {0, w - 1} /\ p[2] \in {0, h - 1}}
                            ELSE Pixels(w, h), n) : n \in OrientedCounts}}

\* the fields a cortex is built for
V2Fields ==
    {<<w, h>> : w \in (0 .. MaxVW) \cup {StripWidth}, h \in 0 .. MaxVH}
    \cup {<<WideWidth, WideHeight>>}

\* the frames a cortex is given after its first: no rows at all, and all
\* cells at 0 degrees
LaterFrames(w, h) == {<<>>, FullOrientationMap(w, h, 0)}

InitV2 ==
    /\ pc = "new"
    /\ \E field \in V2Fields, spacing \in V2Spacings, build \in Builds :
          /\ v2_cortex \in NewV2Cortex(field[1], field[2], spacing, build)
          /\ IF v2_cortex.failure = "none"
             THEN \E frame \in V2Inputs(field[1], field[2]) :
                      orientation_map = frame[1] /\ edge_map = frame[2]
             ELSE orientation_map = <<>> /\ edge_map = <<>>
    /\ v2_response = <<>>
    /\ image = <<>>
    /\ ganglion_layer = [cells |-> <<>>, width |-> 0, height |-> 0]
    /\ tracer = TracerIdle
    /\ NoPathway
    /\ NoV4
    /\ NoNeuron
    /\ NoLabel

\* response = cortex.process(&orientation_map, &edge_map)
ProcessV2 ==
    /\ v2_cortex.failure = "none"
    /\ LET result == v2_process(v2_cortex, orientation_map, edge_map)
       IN  /\ v2_cortex' = result.cortex
           /\ v2_response' = result.response
    /\ pc' = "process"
    /\ UNCHANGED <<orientation_map, edge_map, notV2>>

\* the caller has the next frame ready
NextFrame ==
    /\ pc = "process"
    /\ orientation_map' \in LaterFrames(v2_cortex.width, v2_cortex.height)
    /\ orientation_map' # orientation_map
    /\ pc' = "frame"
    /\ UNCHANGED <<edge_map, v2_cortex, v2_response, notV2>>

NextV2 == ProcessV2 \/ NextFrame

SpecV2 == InitV2 /\ [][NextV2]_vars

-----------------------------------------------------------------------------
(* The pathway: a VisualPathway is built for a field of some size, in some  *)
(* build, and then processes grayscale images of that size, or an image     *)
(* without rows, one after another                                           *)

MaxPW == 11
MaxPH == 11
MaxCalls == 2

\* a grey that saturates no cone, and, on fields with columns to the right
\* of the middle, a step from dark to white
PathwayImages(w, h) ==
    {<<>>, UniformImage(w, h, 3000)}
    \cup {VerticalEdgeImage(w, h, k, <<0, 10000>>) : k \in {w \div 2} \cap (1 .. w - 1)}

\* the calls so far, read off the ATP the cones have used (0 without cones)
Calls ==
    IF Len(cones) = 0 THEN 0
    ELSE (100 * Unit - cones[1].inner_segment_atp) \div (Unit \div 10)

InitPathway ==
    /\ pc = "new"
    /\ \E w \in 0 .. MaxPW, h \in 0 .. MaxPH, build \in Builds :
          \E made \in NewVisualPathway(w, h, build) :
              /\ pathway = made.pathway
              /\ cones = made.cones
              /\ ganglion_layer = made.ganglion_layer
              /\ v1_cortex = made.v1_cortex
              /\ v2_cortex = made.v2_cortex
    /\ image = <<>>
    /\ cone_activations = <<>>
    /\ edge_map = <<>>
    /\ orientation_map = <<>>
    /\ v2_response = <<>>
    /\ features = <<>>
    /\ tracer = TracerIdle
    /\ NoV4
    /\ NoNeuron
    /\ NoLabel

\* response = pathway.process_grayscale_image(&image)
ProcessGrayscaleImage ==
    /\ pathway.failure = "none"
    /\ Calls < MaxCalls
    /\ \E img \in PathwayImages(pathway.width, pathway.height) :
          \E result \in {process_grayscale_image(cones, ganglion_layer, v1_cortex,
                                                  v2_cortex, pathway.width,
                                                  pathway.height, img)} :
              /\ image' = img
              /\ cones' = result.cones
              /\ cone_activations' = result.cone_activations
              /\ ganglion_layer' = result.stages.ganglion_layer
              /\ edge_map' = result.stages.edge_map
              /\ v1_cortex' = result.stages.v1_cortex
              /\ orientation_map' = result.stages.orientation_map
              /\ v2_cortex' = result.stages.v2_cortex
              /\ v2_response' = result.stages.v2_features
              /\ features' = result.stages.features
    /\ pc' = "process"
    /\ UNCHANGED <<pathway, tracer, v4Only, neuronOnly, label>>

NextPathway == ProcessGrayscaleImage

SpecPathway == InitPathway /\ [][NextPathway]_vars

-----------------------------------------------------------------------------
(* The pathway on a vertical bar: a VisualPathway is built for a field and  *)
(* processes the vertical bar of test_patterns for that field               *)

\* the field of the integration tests
BarField == 64

\* the smaller fields: from the smallest on which VisualPathway::new returns
\* whatever the width
MinBW == 11
MaxBW == 20
MaxBH == 20

BarFields ==
    {<<w, h>> : w \in MinBW .. MaxBW, h \in MinBW .. MaxBH} \cup {<<BarField, BarField>>}

InitBar ==
    /\ pc = "new"
    /\ \E field \in BarFields, build \in Builds :
          \E made \in NewVisualPathway(field[1], field[2], build) :
              /\ pathway = made.pathway
              /\ cones = made.cones
              /\ ganglion_layer = made.ganglion_layer
              /\ v1_cortex = made.v1_cortex
              /\ v2_cortex = made.v2_cortex
    /\ image = <<>>
    /\ cone_activations = <<>>
    /\ edge_map = <<>>
    /\ orientation_map = <<>>
    /\ v2_response = <<>>
    /\ features = <<>>
    /\ tracer = TracerIdle
    /\ NoV4
    /\ NoNeuron
    /\ NoLabel

\* response = pathway.process_grayscale_image(&vertical_bar(width, height))
ProcessBar ==
    /\ pathway.failure = "none"
    /\ pc = "new"
    /\ \E img \in {vertical_bar(pathway.width, pathway.height)} :
          \E result \in {process_grayscale_image(cones, ganglion_layer, v1_cortex,
                                                  v2_cortex, pathway.width,
                                                  pathway.height, img)} :
              /\ image' = img
              /\ cones' = result.cones
              /\ cone_activations' = result.cone_activations
              /\ ganglion_layer' = result.stages.ganglion_layer
              /\ edge_map' = result.stages.edge_map
              /\ v1_cortex' = result.stages.v1_cortex
              /\ orientation_map' = result.stages.orientation_map
              /\ v2_cortex' = result.stages.v2_cortex
              /\ v2_response' = result.stages.v2_features
              /\ features' = result.stages.features
    /\ pc' = "process"
    /\ UNCHANGED <<pathway, tracer, v4Only, neuronOnly, label>>

NextBar == ProcessBar

SpecBar == InitBar /\ [][NextBar]_vars

-----------------------------------------------------------------------------
(* The V1 cortex: a V1Cortex is built for a field of some size, spacing and *)
(* receptive field size, in some build; then edge maps are processed and    *)
(* the orientation map is asked for                                          *)

MaxCW == 5
MaxCH == 3
V1Spacings == {1, 2}
V1RfSizes == {1, 2}

\* the most keys of which every iteration order is tried; of more keys, the
\* order of insertion and its reverse
MaxShuffled == 3

\* the iteration orders tried for the keys
TriedOrders(keys) ==
    IF Len(keys) <= MaxShuffled THEN IterationOrders(keys)
    ELSE {keys, [k \in 1 .. Len(keys) |-> keys[Len(keys) + 1 - k]]}

\* a row or a column of edges of the given strength on a map without edges
EdgeRowMap(w, h, row, v) ==
    [y \in 0 .. h - 1 |-> [x \in 0 .. w - 1 |-> IF y = row THEN v ELSE 0]]

EdgeColumnMap(w, h, col, v) ==
    [y \in 0 .. h - 1 |-> [x \in 0 .. w - 1 |-> IF x = col THEN v ELSE 0]]

\* the edge maps given to a V1 cortex of a w x h field: the map without
\* rows; maps without edges, of weak and of strong edges everywhere; a row, a
\* column and a diagonal of edges; one weak edge
V1EdgeMaps(w, h) ==
    {<<>>, Grid(w, h, 0), Grid(w, h, 500), Grid(w, h, Unit),
     EdgeRowMap(w, h, h \div 2, Unit), EdgeColumnMap(w, h, w \div 2, Unit),
     [y \in 0 .. h - 1 |-> [x \in 0 .. w - 1 |-> IF x = y THEN 5000 ELSE 0]],
     [y \in 0 .. h - 1 |-> [x \in 0 .. w - 1 |-> IF x = 1 /\ y = 1 THEN 3000 ELSE 0]]}

InitV1 ==
    /\ pc = "new"
    /\ \E w \in 0 .. MaxCW, h \in 0 .. MaxCH, spacing \in V1Spacings,
          rf_size \in V1RfSizes, build \in Builds :
          v1_cortex \in NewV1Cortex(w, h, spacing, rf_size, build)
    /\ image = <<>>
    /\ ganglion_layer = [cells |-> <<>>, width |-> 0, height |-> 0]
    /\ edge_map = <<>>
    /\ tracer = TracerIdle
    /\ NoV2
    /\ pathway = <<>>
    /\ cones = <<>>
    /\ cone_activations = <<>>
    /\ features = <<>>
    /\ NoV4
    /\ NoNeuron
    /\ NoLabel

\* cortex.process_edges(&edge_map)
ProcessEdges ==
    /\ v1_cortex.failure = "none"
    /\ \E em \in V1EdgeMaps(v1_cortex.width, v1_cortex.height) :
          /\ edge_map' = em
          /\ v1_cortex' = process_edges(v1_cortex, em)
    /\ orientation_map' = <<>>
    /\ pc' = "process_edges"
    /\ UNCHANGED <<image, ganglion_layer, v2_cortex, v2_response, tracer, pathway,
                   cones, cone_activations, features, v4Only, neuronOnly, label>>

\* orientation_map = cortex.orientation_map()
OrientationMap ==
    /\ v1_cortex.failure = "none"
    /\ pc = "process_edges"
    /\ \E order \in TriedOrders(ColumnPositions(v1_cortex)) :
          orientation_map' = orientation_map_in(v1_cortex, order)
    /\ pc' = "orientation_map"
    /\ UNCHANGED <<image, ganglion_layer, edge_map, v1_cortex, v2_cortex, v2_response,
                   tracer, pathway, cones, cone_activations, features, v4Only,
                   neuronOnly, label>>

NextV1 == ProcessEdges \/ OrientationMap

SpecV1 == InitV1 /\ [][NextV1]_vars

-----------------------------------------------------------------------------
(* The V4 cortex: a V4Cortex is built for a field of some size and spacing, *)
(* in some build, and then processes V2 responses of that size, one after   *)
(* another                                                                   *)

MaxSW == 6
MaxSH == 4
V4Spacings == {1, 2}

\* a field wider than two receptive fields, where detectors see different
\* parts of the response
ShapeStripWidth == 2 * ShapeRfSize + 4
ShapeStripHeight == 5

\* the fields: <<width, height, spacing>>
V4Fields ==
    {<<w, h, spacing>> : w \in 0 .. MaxSW, h \in 0 .. MaxSH, spacing \in V4Spacings}
    \cup {<<ShapeStripWidth, ShapeStripHeight, 2>>}

\* pixel number k (from 0) of a path that runs down the first column of a
\* grid of height h, up the second, and so on
SerpentinePixel(k, h) ==
    <<k \div h, IF (k \div h) % 2 = 0 THEN k % h ELSE h - 1 - (k % h)>>

\* cell number j (from 0) of the cells that are on no border, column by column
InteriorCell(j, h) == <<1 + (j \div (h - 2)), 1 + (j % (h - 2))>>

\* the sum of the first n entries of a sequence of numbers
LengthsBefore(lengths, n) == SumRange(LAMBDA i : lengths[i], 1, n)

\* what a V2 cortex of spacing 1 can return for a w x h field: the corners
\* of `corners` in the first interior cells, and contours of the lengths of
\* `lengths` that follow the serpentine path one after another from pixel
\* number `start` on; what does not fit in the field is left out, and so is
\* a contour that is left shorter than PathLength
SceneResponse(w, h, corners, lengths, start) ==
    LET room == Max2(w - 2, 0) * Max2(h - 2, 0)
        placed == Min2(Len(corners), room)
        corner_map ==
            [y \in 0 .. h - 1 |-> [x \in 0 .. w - 1 |->
                IF \E j \in 0 .. placed - 1 : InteriorCell(j, h) = <<x, y>>
                THEN corners[1 + (CHOOSE j \in 0 .. placed - 1 :
                                     InteriorCell(j, h) = <<x, y>>)]
                ELSE "None"]]
        first(n) == start + LengthsBefore(lengths, n - 1)
        fitting(n) == Max2(Min2(lengths[n], w * h - first(n)), 0)
        contour(n) == [i \in 1 .. fitting(n) |-> SerpentinePixel(first(n) + i - 1, h)]
        contours == SelectSeq([n \in 1 .. Len(lengths) |-> contour(n)],
                              LAMBDA c : Len(c) >= PathLength)
    IN  [corner_map |-> corner_map, contours |-> contours,
         corner_count |-> placed, contour_count |-> Len(contours)]

\* scenes: nothing; one contour; a contour too short for the line detector;
\* three L and four T corners with six contours; three T and three L corners
\* with three contours that begin in the second column; four L corners with three
\* contours one of them long; an X corner with three contours; a long
\* contour in the middle of a strip; three corners with five contours of six
\* pixels
Scenes ==
    {[corners |-> <<>>, lengths |-> <<>>, start |-> 0],
     [corners |-> <<"LJunction", "LJunction", "LJunction">>,
      lengths |-> <<6, 6, 6, 6, 6>>, start |-> 0],
     [corners |-> <<>>, lengths |-> <<10>>, start |-> 0],
     [corners |-> <<"TJunction">>, lengths |-> <<6>>, start |-> 0],
     [corners |-> <<"LJunction", "LJunction", "LJunction",
                    "TJunction", "TJunction", "TJunction", "TJunction">>,
      lengths |-> <<3, 3, 3, 3, 3, 3>>, start |-> 0],
     [corners |-> <<"TJunction", "TJunction", "LJunction",
                    "TJunction", "LJunction", "LJunction">>,
      lengths |-> <<3, 3, 3>>, start |-> ShapeStripHeight],
     [corners |-> <<"LJunction", "LJunction", "LJunction", "LJunction">>,
      lengths |-> <<9, 3, 3>>, start |-> 0],
     [corners |-> <<"XJunction">>, lengths |-> <<3, 3, 3>>, start |-> 0],
     [corners |-> <<"YJunction", "XJunction">>, lengths |-> <<12, 4>>,
      start |-> ShapeStripHeight * (ShapeRfSize + 1)]}

\* the V2 responses given to a V4 cortex of a w x h field
V4Inputs(w, h) ==
    {SceneResponse(w, h, scene.corners, scene.lengths, scene.start) : scene \in Scenes}

InitV4 ==
    /\ pc = "new"
    /\ \E field \in V4Fields, build \in Builds :
          /\ v4_cortex \in NewV4Cortex(field[1], field[2], field[3], build)
    /\ v4_response = <<>>
    /\ image = <<>>
    /\ ganglion_layer = [cells |-> <<>>, width |-> 0, height |-> 0]
    /\ edge_map = <<>>
    /\ tracer = TracerIdle
    /\ NoV2
    /\ NoPathway
    /\ NoNeuron
    /\ NoLabel

\* response = v4_cortex.process(&v2_response)
ProcessV4 ==
    /\ v4_cortex.failure = "none"
    /\ \E given \in V4Inputs(v4_cortex.width, v4_cortex.height) :
          \E result \in {v4_process(v4_cortex, given)} :
              /\ v2_response' = given
              /\ v4_cortex' = result.cortex
              /\ v4_response' = result.response
    /\ pc' = "process"
    /\ UNCHANGED <<image, ganglion_layer, edge_map, orientation_map, v2_cortex,
                   tracer, pathwayOnly, neuronOnly, label>>

NextV4 == ProcessV4

SpecV4 == InitV4 /\ [][NextV4]_vars

-----------------------------------------------------------------------------
(* Neuron.  Potentials and signals are in Unit per millivolt.               *)

RESTING_POTENTIAL == -70 * Unit
THRESHOLD == -55 * Unit
ACTION_POTENTIAL_PEAK == 30 * Unit
REFRACTORY_PERIOD_MS == 2
MAX_SPIKE_HISTORY == 100

\* Neuron::new, for a neuron whose synapses are left out
NewNeuron(id) ==
    [id |-> id, dendrites |-> <<>>, soma_potential |-> RESTING_POTENTIAL,
     axon_signal |-> <<>>, is_refractory |-> FALSE, refractory_timer |-> 0,
     spike_history |-> <<>>]

\* Neuron::receive_input
receive_input(neuron, signal) ==
    [neuron EXCEPT !.dendrites = Append(neuron.dendrites, signal)]

\* Neuron::integrate_inputs
integrate_inputs(neuron) ==
    IF neuron.dendrites = <<>> THEN neuron
    ELSE [neuron EXCEPT
             !.soma_potential =
                 neuron.soma_potential
                 + (SumRange(LAMBDA i : neuron.dendrites[i], 1, Len(neuron.dendrites))
                        \div Len(neuron.dendrites)),
             !.dendrites = <<>>]

\* `push_back(time_ms)` and, beyond MAX_SPIKE_HISTORY, `pop_front()`
RecordSpike(history, t) ==
    IF Len(history) + 1 > MAX_SPIKE_HISTORY
    THEN Tail(Append(history, t))
    ELSE Append(history, t)

\* a neuron that never takes the refractory branch
NeverRefractory(neuron) == FALSE

\* `if self.is_refractory` at the head of generate_action_potential
InRefractoryPeriod(neuron) == neuron.is_refractory

\* Neuron::generate_action_potential: the neuron after the call and the
\* value returned
generate_action_potential(neuron, t) ==
    IF InRefractoryPeriod(neuron)
    THEN LET timer == Max2(neuron.refractory_timer - 1, 0)
         IN  [neuron |-> IF timer = 0
                         THEN [neuron EXCEPT !.refractory_timer = timer,
                                             !.is_refractory = FALSE,
                                             !.soma_potential = RESTING_POTENTIAL]
                         ELSE [neuron EXCEPT !.refractory_timer = timer],
              returned |-> FALSE]
    ELSE IF neuron.soma_potential >= THRESHOLD
    THEN [neuron |-> [neuron EXCEPT !.soma_potential = ACTION_POTENTIAL_PEAK,
                                    !.axon_signal = <<ACTION_POTENTIAL_PEAK>>,
                                    !.is_refractory = TRUE,
                                    !.refractory_timer = REFRACTORY_PERIOD_MS,
                                    !.spike_history = RecordSpike(neuron.spike_history, t)],
          returned |-> TRUE]
    ELSE [neuron |-> [neuron EXCEPT
                         !.soma_potential =
                             neuron.soma_potential
                             + ((RESTING_POTENTIAL - neuron.soma_potential) \div 10),
                         !.axon_signal = <<>>],
          returned |-> FALSE]

-----------------------------------------------------------------------------
(* One neuron: it is made, or has spiked before, and is then driven tick by *)
(* tick as NeuralNetwork::step drives it: inputs are received, integrated,  *)
(* and generate_action_potential is called with the time of the tick        *)

MaxTicks == 4
MaxInputs == 1

\* an inhibiting signal, the signal that lifts a resting neuron exactly to
\* the threshold, and a stronger one
Signals == {-10 * Unit, 15 * Unit, 20 * Unit}

\* the spikes a neuron has recorded before: none, or so many that the
\* history is full after the next, or full already
EarlierSpikes == {0, MAX_SPIKE_HISTORY - 1, MAX_SPIKE_HISTORY}

\* the time between two spikes of a neuron driven at every tick
SpikeInterval == REFRACTORY_PERIOD_MS + 1

\* the ticks simulated: MaxTicks from the time a neuron starts at
SimulatedTicks ==
    UNION {n * SpikeInterval .. n * SpikeInterval + MaxTicks - 1 : n \in EarlierSpikes}

InitNeuron ==
    /\ \E n \in EarlierSpikes :
          /\ the_neuron = [NewNeuron(0) EXCEPT
                              !.spike_history = [k \in 1 .. n |-> (k - 1) * SpikeInterval]]
          /\ time_ms = n * SpikeInterval
    /\ fired = "none"
    /\ pc = "step"
    /\ image = <<>>
    /\ ganglion_layer = [cells |-> <<>>, width |-> 0, height |-> 0]
    /\ edge_map = <<>>
    /\ tracer = TracerIdle
    /\ NoV2
    /\ NoPathway
    /\ NoV4
    /\ NoLabel

\* neuron.receive_input(signal)
ReceiveInput ==
    /\ pc = "step"
    /\ Len(the_neuron.dendrites) < MaxInputs
    /\ \E signal \in Signals : the_neuron' = receive_input(the_neuron, signal)
    /\ UNCHANGED <<pc, time_ms, fired, image, ganglion_layer, edge_map, orientation_map,
                   v2_cortex, v2_response, tracer, pathwayOnly, v4Only, label>>

\* neuron.integrate_inputs()
IntegrateInputs ==
    /\ pc = "step"
    /\ the_neuron' = integrate_inputs(the_neuron)
    /\ pc' = "integrated"
    /\ UNCHANGED <<time_ms, fired, image, ganglion_layer, edge_map, orientation_map,
                   v2_cortex, v2_response, tracer, pathwayOnly, v4Only, label>>

\* fired = neuron.generate_action_potential(time_ms), and the tick ends
GenerateActionPotential ==
    /\ pc = "integrated"
    /\ time_ms \in SimulatedTicks
    /\ \E result \in {generate_action_potential(the_neuron, time_ms)} :
          /\ the_neuron' = result.neuron
          /\ fired' = IF result.returned THEN "true" ELSE "false"
    /\ time_ms' = time_ms + 1
    /\ pc' = "step"
    /\ UNCHANGED <<image, ganglion_layer, edge_map, orientation_map,
                   v2_cortex, v2_response, tracer, pathwayOnly, v4Only, label>>

NextNeuron == ReceiveInput \/ IntegrateInputs \/ GenerateActionPotential

SpecNeuron == InitNeuron /\ [][NextNeuron]_vars

-----------------------------------------------------------------------------
(* The label of a VisualFeatures value.  VisualFeatures is a public struct  *)
(* with public fields; the caller has a value with strengths that are whole *)
(* multiples of the smallest positive f32, 2^-149, the spacing of the       *)
(* floats below 2^-126, and asks for its dominant orientation.              *)

\* the largest strength, in units of 2^-149
MaxStrength == 12

\* strengths in units of 2^-149
Strengths == 0 .. MaxStrength

InitDominant ==
    /\ pc = "new"
    /\ \E h, v, d \in Strengths :
          features = [horizontal_strength |-> h, vertical_strength |-> v,
                      diagonal_strength |-> d, total_activation |-> h + v + d]
    /\ label = "none"
    /\ image = <<>>
    /\ ganglion_layer = [cells |-> <<>>, width |-> 0, height |-> 0]
    /\ edge_map = <<>>
    /\ tracer = TracerIdle
    /\ NoV2
    /\ pathway = <<>>
    /\ cones = <<>>
    /\ v1_cortex = <<>>
    /\ cone_activations = <<>>
    /\ NoV4
    /\ NoNeuron

\* label = features.dominant_orientation()
DominantOrientation ==
    /\ pc = "new"
    /\ label' = dominant_orientation(features)
    /\ pc' = "dominant_orientation"
    /\ UNCHANGED <<image, ganglion_layer, edge_map, orientation_map, v2_cortex,
                   v2_response, tracer, pathwayOnly, v4Only, neuronOnly>>

NextDominant == DominantOrientation

SpecDominant == InitDominant /\ [][NextDominant]_vars

-----------------------------------------------------------------------------
(* Claims about the contour tracer *)

\* every trace so far: the returned contours and the trace under way
AllTraces ==
    IF tracer.contour = <<>> THEN tracer.contours
    ELSE Append(tracer.contours, tracer.contour)

Range(s) == {s[i] : i \in 1 .. Len(s)}

TracedPixels == UNION {Range(AllTraces[c]) : c \in 1 .. Len(AllTraces)}

RECURSIVE TotalLen(_)
TotalLen(ss) == IF ss = <<>> THEN 0 ELSE Len(Head(ss)) + TotalLen(Tail(ss))

VisitedPixels ==
    {p \in Pixels(GridWidth(tracer.visited), GridHeight(tracer.visited)) :
        tracer.visited[p[2]][p[1]]}

\* what is left of a detect_contours call: the pixels still to scan, each
\* worth one whole trace, and the iterations left of the trace under way
TracerWork ==
    LET n == GridWidth(edge_map) * GridHeight(edge_map)
        k == MaxPathSteps + 3
    IN  CASE tracer.pc = "idle"  -> (n + 2) * k
          [] tracer.pc = "scan"  -> (n - tracer.scan + 1) * k
          [] tracer.pc = "trace" -> (n - tracer.scan) * k + (MaxPathSteps - tracer.iter) + 1
          [] tracer.pc = "done"  -> 0

\* the step cap in one state: the loop counter, the trace under way and the
\* kept contours
C1_StepCap ==
    /\ tracer.iter <= MaxPathSteps
    /\ tracer.pc = "trace" => Len(tracer.contour) = tracer.iter + 1
    /\ Len(tracer.contour) <= MaxPathSteps + 1
    /\ \A c \in 1 .. Len(tracer.contours) :
          Len(tracer.contours[c]) <= MaxPathSteps + 1
    /\ TracerWork >= 0

\* C1: for every finite edge map, the saturated ones included, a call of
\* trace_contour makes at most 200 extension steps, so a traced path never
\* has more than 201 pixels, and detect_contours terminates: every step
\* strictly lowers TracerWork, which is never negative.
C1_StepCapAndTermination ==
    [][/\ C1_StepCap
       /\ C1_StepCap'
       /\ TracerWork' < TracerWork]_vars

\* a trace that was cut by the cap: 200 steps done, 201 pixels
C1_Witness ==
    /\ tracer.pc = "trace"
    /\ tracer.iter = MaxPathSteps
    /\ Len(tracer.contour) = MaxPathSteps + 1
    /\ BestNeighbour(tracer.dilated_map, tracer.visited,
                     tracer.current[1], tracer.current[2]) # <<>>

\* the pixel a step appends to the trace under way (the seed included)
AppendedPixels ==
    IF tracer'.contour # <<>> /\ tracer'.contour # tracer.contour
    THEN {tracer'.contour[Len(tracer'.contour)]}
    ELSE {}

\* no pixel occurs twice in the traces so far
NoPixelTwice == Cardinality(TracedPixels) = TotalLen(AllTraces)

\* C2: in the contours of one detect_contours call no pixel occurs in two
\* contours or twice in one contour, and a pixel that is marked visited (by
\* a kept or a dropped trace) is never appended to a later trace.
C2_PixelsClaimedOnce ==
    [][/\ NoPixelTwice
       /\ NoPixelTwice'
       /\ \A p \in AppendedPixels : ~tracer.visited[p[2]][p[1]]
       /\ tracer.pc # "idle" =>
             \A y \in DOMAIN tracer.visited : \A x \in DOMAIN tracer.visited[y] :
                 tracer.visited[y][x] => tracer'.visited[y][x]]_vars

\* a trace under way stands next to a pixel that an earlier trace claimed
\* (one kept contour exists, and the pixel is not of the trace under way)
\* and that would be followed but for its visited flag
C2_Witness ==
    /\ tracer.pc = "trace"
    /\ Len(tracer.contours) >= 1
    /\ \E i \in 1 .. Len(NeighbourOrder) :
          LET nx == tracer.current[1] + NeighbourOrder[i][1]
              ny == tracer.current[2] + NeighbourOrder[i][2]
          IN  /\ InGrid(nx, ny, GridWidth(edge_map), GridHeight(edge_map))
              /\ tracer.visited[ny][nx]
              /\ tracer.dilated_map[ny][nx] > FollowThreshold
              /\ <<nx, ny>> \notin Range(tracer.contour)

-----------------------------------------------------------------------------
(* Claims about the ganglion layer *)

\* the positions that carry a cell
DetectorPositions == {<<ganglion_layer.cells[i].x, ganglion_layer.cells[i].y>> :
                         i \in 1 .. Len(ganglion_layer.cells)}

\* the image the cells hold the response to is uniform (and has pixels)
UniformProcessed ==
    /\ pc \in {"process_image", "create_edge_map"}
    /\ image # <<>>
    /\ \E v \in Intensities :
          image = UniformImage(ganglion_layer.width, ganglion_layer.height, v)

\* C6: for every grid size and every uniform intensity, after process_image
\* every ON and OFF cell has response 0 (center average = surround average),
\* the cells at the border and of grids too small for a surround sample
\* included, and the edge map made of them is 0 everywhere.
C6_UniformImageNoResponse ==
    UniformProcessed =>
        /\ \A i \in 1 .. Len(ganglion_layer.cells) :
              /\ response_strength(ganglion_layer.cells[i]) = 0
              /\ ganglion_layer.cells[i].center_activation
                    = ganglion_layer.cells[i].surround_activation
        /\ pc = "create_edge_map" =>
              edge_map = Grid(ganglion_layer.width, ganglion_layer.height, 0)

\* C7: the map create_edge_map returns has exactly width x height of the
\* layer; the cells sit exactly at the positions whose x and y are multiples
\* of the spacing; and every other position of the map holds 0.
C7_EdgeMapShapeAndSparsity ==
    pc = "create_edge_map" =>
        /\ DOMAIN edge_map = 0 .. ganglion_layer.height - 1
        /\ \A y \in DOMAIN edge_map : DOMAIN edge_map[y] = 0 .. ganglion_layer.width - 1
        /\ \E spacing \in GanglionSpacings :
              DetectorPositions =
                  {p \in Pixels(ganglion_layer.width, ganglion_layer.height) :
                      p[1] % spacing = 0 /\ p[2] % spacing = 0}
        /\ \A p \in Pixels(ganglion_layer.width, ganglion_layer.height) \ DetectorPositions :
              edge_map[p[2]][p[1]] = 0

\* an edge map with a response at a detector whose neighbours carry no cell
C7_Witness ==
    /\ pc = "create_edge_map"
    /\ Cardinality(DetectorPositions) >= 2
    /\ \E p \in DetectorPositions :
          /\ edge_map[p[2]][p[1]] > 0
          /\ \E q \in Pixels(ganglion_layer.width, ganglion_layer.height) \ DetectorPositions :
                Abs(q[1] - p[1]) <= 1 /\ Abs(q[2] - p[2]) <= 1

\* C8 as stated: at each detector position the edge map holds |firing_rate|
\* of a detector there, firing_rate = max(0, response x 100), written and
\* not accumulated over the ON and the OFF cell of the position.
C8_EdgeMapHoldsFiringRate ==
    pc = "create_edge_map" =>
        \A p \in DetectorPositions :
            \E i \in 1 .. Len(ganglion_layer.cells) :
                /\ <<ganglion_layer.cells[i].x, ganglion_layer.cells[i].y>> = p
                /\ ganglion_layer.cells[i].output_rate
                      = Max2(0, response_strength(ganglion_layer.cells[i]) * 100)
                /\ edge_map[p[2]][p[1]] = Abs(ganglion_layer.cells[i].output_rate)

\* C8, amended: the firing rate of every cell is max(0, response x 100), but
\* the edge map does not hold it: at each detector position the map holds
\* the sum over the ON and the OFF cell there of |response_strength|, which
\* is twice |center average - surround average|, unscaled and unrectified.
C8_EdgeMapAccumulatesResponseStrength ==
    pc = "create_edge_map" =>
        \A i \in 1 .. Len(ganglion_layer.cells) :
            LET cell == ganglion_layer.cells[i]
                difference == cell.center_activation - cell.surround_activation
            IN  /\ cell.output_rate
                      = Max2(0, 100 * (IF cell.cell_type = "OnCenter"
                                       THEN difference ELSE 0 - difference))
                /\ edge_map[cell.y][cell.x] = 2 * Abs(difference)

\* an edge map made of an ON cell that fires and an OFF cell that is silent
\* at the same position
C8_Witness ==
    /\ pc = "create_edge_map"
    /\ \E i, j \in 1 .. Len(ganglion_layer.cells) :
          /\ ganglion_layer.cells[i].x = ganglion_layer.cells[j].x
          /\ ganglion_layer.cells[i].y = ganglion_layer.cells[j].y
          /\ ganglion_layer.cells[i].cell_type = "OnCenter"
          /\ ganglion_layer.cells[j].cell_type = "OffCenter"
          /\ ganglion_layer.cells[i].output_rate > 0
          /\ ganglion_layer.cells[j].output_rate = 0
          /\ edge_map[ganglion_layer.cells[i].y][ganglion_layer.cells[i].x] > 0

-----------------------------------------------------------------------------
(* Claims about the corner map of the V2 cortex *)

\* the numbers of the detectors at p whose activation exceeds the threshold
ActiveAt(p) ==
    {i \in 1 .. Len(v2_cortex.corner_detectors) :
        /\ v2_cortex.corner_detectors[i].x = p[1]
        /\ v2_cortex.corner_detectors[i].y = p[2]
        /\ v2_cortex.corner_detectors[i].activation > CornerThreshold}

\* the place of a corner type in the order L, T, X, Y
TypeRank(corner_type) == CHOOSE k \in 1 .. Len(CornerTypes) : CornerTypes[k] = corner_type

\* C9: after V2Cortex::process a cell of the corner map is populated iff
\* one of the detectors at its position has activation > 1.0, and it then
\* holds the type of the last of them in the order L, T, X, Y; the
\* detectors of a position stand in that order; and a cell that is no
\* detector position is empty.
C9_CornerMapLastWriteWins ==
    pc = "process" =>
        /\ \A i, j \in 1 .. Len(v2_cortex.corner_detectors) :
              (/\ i < j
               /\ v2_cortex.corner_detectors[i].x = v2_cortex.corner_detectors[j].x
               /\ v2_cortex.corner_detectors[i].y = v2_cortex.corner_detectors[j].y)
              => TypeRank(v2_cortex.corner_detectors[i].corner_type)
                    < TypeRank(v2_cortex.corner_detectors[j].corner_type)
        /\ \A p \in Pixels(v2_cortex.width, v2_cortex.height) :
              IF ActiveAt(p) = {}
              THEN v2_response.corner_map[p[2]][p[1]] = "None"
              ELSE v2_response.corner_map[p[2]][p[1]]
                      = v2_cortex.corner_detectors[SetMax(ActiveAt(p))].corner_type

\* a processed frame with a cell where the L and the T detector exceeded
\* the threshold and the map shows T, and with a detector position where
\* none did and the map is empty
C9_Witness ==
    /\ pc = "process"
    /\ \E p \in Pixels(v2_cortex.width, v2_cortex.height) :
          /\ Cardinality(ActiveAt(p)) = 2
          /\ v2_response.corner_map[p[2]][p[1]] = "TJunction"
    /\ \E i \in 1 .. Len(v2_cortex.corner_detectors) :
          LET d == v2_cortex.corner_detectors[i]
          IN  ActiveAt(<<d.x, d.y>>) = {} /\ v2_response.corner_map[d.y][d.x] = "None"

\* the orientation map that was processed has a near-0 degree cell and a
\* near-90 degree cell inside the window of a corner detector position
PerpendicularPairInWindow ==
    /\ pc = "process"
    /\ orientation_map # <<>>
    /\ \E i \in 1 .. Len(v2_cortex.corner_detectors) :
          LET cells == WindowCells(v2_cortex.corner_detectors[i], orientation_map,
                                   v2_cortex.width, v2_cortex.height)
          IN  /\ \E p \in cells : IsHorizontal(orientation_map[p[2]][p[1]][1])
              /\ \E p \in cells : IsVertical(orientation_map[p[2]][p[1]][1])

\* C10: whenever the orientation map has a near-0 degree and a near-90
\* degree cell inside the radius-6 window of a corner detector position, the
\* corner map V2Cortex::process returns has a cell with the L-junction type.
C10_PerpendicularEdgesGiveLJunction ==
    PerpendicularPairInWindow =>
        \E p \in Pixels(v2_cortex.width, v2_cortex.height) :
            v2_response.corner_map[p[2]][p[1]] = "LJunction"

\* the L-junction detectors of the cortex
LDetectors ==
    {i \in 1 .. Len(v2_cortex.corner_detectors) :
        v2_cortex.corner_detectors[i].corner_type = "LJunction"}

\* the cells of the orientation map inside the grid and inside the square
\* window of radius 6 around detector i that hold an angle of the band
CellsInBand(i, Band(_)) ==
    {p \in Pixels(GridWidth(orientation_map), GridHeight(orientation_map)) :
        /\ Abs(p[1] - v2_cortex.corner_detectors[i].x) <= 6
        /\ Abs(p[2] - v2_cortex.corner_detectors[i].y) <= 6
        /\ orientation_map[p[2]][p[1]] # <<>>
        /\ Band(orientation_map[p[2]][p[1]][1])}

h_count(i) == Cardinality(CellsInBand(i, LAMBDA deg : deg < 225 \/ deg > 1575))

v_count(i) == Cardinality(CellsInBand(i, LAMBDA deg : 675 <= deg /\ deg <= 1125))

\* C22: the score of an L-junction detector on the orientation map it was
\* given is min(h_count, v_count) x 2 capped at 100, where h_count counts
\* the in-bounds cells of the radius-6 square window whose angle is < 22.5
\* or > 157.5 degrees and v_count those with an angle in [67.5, 112.5]; it is
\* 0 when either count is 0; empty cells and cells outside the grid are not
\* counted
C22_LJunctionScore ==
    (pc = "process" /\ orientation_map # <<>>) =>
        \A i \in LDetectors :
            v2_cortex.corner_detectors[i].activation =
                IF h_count(i) = 0 \/ v_count(i) = 0 THEN 0
                ELSE IF Min2(h_count(i), v_count(i)) * 2 > 100 THEN 100 * Unit
                ELSE Min2(h_count(i), v_count(i)) * 2 * Unit

\* a processed map with an L detector whose window leaves the grid, holds an
\* empty cell and unequal counts whose smaller one, doubled, exceeds 100, so
\* that the score is the cap; and with an L detector below the cap
C22_Witness ==
    /\ pc = "process"
    /\ orientation_map # <<>>
    /\ \E i \in LDetectors :
          /\ v2_cortex.corner_detectors[i].activation = 100 * Unit
          /\ Min2(h_count(i), v_count(i)) * 2 > 100
          /\ h_count(i) # v_count(i)
          /\ v2_cortex.corner_detectors[i].y < 6
          /\ \E p \in Pixels(GridWidth(orientation_map), GridHeight(orientation_map)) :
                /\ Abs(p[1] - v2_cortex.corner_detectors[i].x) <= 6
                /\ Abs(p[2] - v2_cortex.corner_detectors[i].y) <= 6
                /\ orientation_map[p[2]][p[1]] = <<>>
    /\ \E i \in LDetectors :
          /\ v2_cortex.corner_detectors[i].activation > 0
          /\ v2_cortex.corner_detectors[i].activation < 100 * Unit

-----------------------------------------------------------------------------
(* Claims about the pathway *)

\* what a call returns besides the cone activations: the edge map, the
\* orientation map, the corner map, contours and counts, and the strengths
Response == <<edge_map, orientation_map, v2_response, features>>

\* C3: calling process_grayscale_image twice in a row on the same
\* VisualPathway with the identical input grid yields identical responses
\* (edge map, orientation map, corner map, contours, counts and derived
\* strengths): nothing computed in the first call influences the second.
C3_RepeatedCallSameResponse ==
    [][(pc = "process" /\ image' = image) => Response' = Response]_vars

\* a pathway of the size of this one, as VisualPathway::new leaves it
FreshPathway ==
    CHOOSE made \in UNION {NewVisualPathway(pathway.width, pathway.height, build) :
                               build \in Builds} :
        made.pathway.failure = "none"

\* stages 2 to 5 of a pathway that has processed nothing, on the cone
\* activations of the last call
FreshStages ==
    process_stages(FreshPathway.ganglion_layer, FreshPathway.v1_cortex,
                   FreshPathway.v2_cortex, cone_activations)

\* C3, amended: the stages after phototransduction carry nothing from call
\* to call.  After every call the ganglion layer, the V1 and V2 cortex and
\* the response are what a pathway that has processed nothing makes of the
\* cone activations of that call; only the cones keep state.
C3_StagesAfterConesStateless ==
    pc = "process" =>
        \A fresh \in {FreshStages} :
            /\ ganglion_layer = fresh.ganglion_layer
            /\ v1_cortex = fresh.v1_cortex
            /\ v2_cortex = fresh.v2_cortex
            /\ edge_map = fresh.edge_map
            /\ orientation_map = fresh.orientation_map
            /\ v2_response = fresh.v2_features
            /\ features = fresh.features

\* the cone activations a pathway that has processed nothing returns for
\* the image of the last call
FreshActivations ==
    activations_of(cones_after(FreshPathway.cones, pathway.width, image),
                   pathway.width, pathway.height, image)

\* a second call, on a field with V1 columns, whose cone activations are not
\* those of a first call on the same image, and whose edge map and
\* strengths are not all 0
C3_Witness ==
    /\ pc = "process"
    /\ Calls = 2
    /\ Len(v1_cortex.columns) > 0
    /\ cone_activations # FreshActivations
    /\ \E p \in Pixels(pathway.width, pathway.height) : edge_map[p[2]][p[1]] > 0
    /\ features.total_activation > 0

\* C4: for a zero-sized grid (width = 0 or height = 0), constructing every
\* layer and running every stage completes without failure and returns
\* empty maps with corner_count and contour_count equal to 0.
C4_ZeroSizedGridCompletes ==
    (pathway.width = 0 \/ pathway.height = 0) =>
        /\ pathway.failure = "none"
        /\ pc = "process" =>
              /\ \A y \in 1 .. Len(edge_map) : edge_map[y] = <<>>
              /\ \A y \in 1 .. Len(orientation_map) : orientation_map[y] = <<>>
              /\ v2_response.corner_count = 0
              /\ v2_response.contour_count = 0

\* C5: for every grid of width >= 1 and height >= 1, also one smaller than
\* the margin or the receptive-field radius of a layer, constructing the
\* layers of the pathway for that size and processing the grid never
\* panics or fails.
C5_AnyGridNeverFails ==
    (pathway.width >= 1 /\ pathway.height >= 1) => pathway.failure = "none"

-----------------------------------------------------------------------------
(* Claims about the V4 cortex *)

\* the detectors of the V4 cortex at position p
ShapeDetectorsOn(p) ==
    {i \in 1 .. Len(v4_cortex.shape_detectors) :
        /\ v4_cortex.shape_detectors[i].x = p[1]
        /\ v4_cortex.shape_detectors[i].y = p[2]}

\* the greatest activation of a detector at p, 0 without detectors
StrongestOn(p) ==
    SetMax({0} \cup {v4_cortex.shape_detectors[i].activation : i \in ShapeDetectorsOn(p)})

\* the detectors at p whose activation is the greatest at p
StrongestDetectorsOn(p) ==
    {i \in ShapeDetectorsOn(p) : v4_cortex.shape_detectors[i].activation = StrongestOn(p)}

\* the place of a shape type in the order of ShapeTypes
ShapeRank(shape_type) == CHOOSE k \in 1 .. Len(ShapeTypes) : ShapeTypes[k] = shape_type

\* the detectors with activation > 5.0
ShapesAbove ==
    {i \in 1 .. Len(v4_cortex.shape_detectors) :
        v4_cortex.shape_detectors[i].activation > ShapeThreshold}

\* the populated cells of the shape map
PopulatedShapeCells ==
    {p \in Pixels(v4_cortex.width, v4_cortex.height) :
        v4_response.shape_map[p[2]][p[1]] # "None"}

\* C11: after V4Cortex::process the shape-map cell at each detector position
\* is populated iff the greatest activation of the six detectors there
\* exceeds 5.0, and it then holds the type of the first detector, in the
\* order Circle, Rectangle, Triangle, Line, Cross, Complex, that attains the
\* greatest activation; every other cell is empty.
C11_ShapeMapHoldsStrongest ==
    pc = "process" =>
        \A p \in Pixels(v4_cortex.width, v4_cortex.height) :
            IF ShapeDetectorsOn(p) # {} /\ StrongestOn(p) > ShapeThreshold
            THEN \E i \in StrongestDetectorsOn(p) :
                    /\ v4_response.shape_map[p[2]][p[1]]
                          = v4_cortex.shape_detectors[i].shape_type
                    /\ \A j \in StrongestDetectorsOn(p) :
                          ShapeRank(v4_cortex.shape_detectors[i].shape_type)
                             <= ShapeRank(v4_cortex.shape_detectors[j].shape_type)
            ELSE v4_response.shape_map[p[2]][p[1]] = "None"

\* a processed response with a position where two detectors tie at the
\* greatest activation above 5.0 while an earlier detector of the position is
\* above 5.0 and weaker, with a position whose detectors are all at or below
\* 5.0 and one of them not 0, and with a cell that is no detector position
C11_Witness ==
    /\ pc = "process"
    /\ \E p \in Pixels(v4_cortex.width, v4_cortex.height) :
          /\ Cardinality(StrongestDetectorsOn(p)) = 2
          /\ StrongestOn(p) > ShapeThreshold
          /\ \E i \in ShapeDetectorsOn(p) \cap ShapesAbove :
                \A j \in StrongestDetectorsOn(p) : i < j
    /\ \E p \in Pixels(v4_cortex.width, v4_cortex.height) :
          /\ ShapeDetectorsOn(p) # {}
          /\ StrongestOn(p) > 0
          /\ StrongestOn(p) <= ShapeThreshold
    /\ \E p \in Pixels(v4_cortex.width, v4_cortex.height) : ShapeDetectorsOn(p) = {}

\* the sum of the per-type counts of the response
TypeCountsSum ==
    SumRange(LAMBDA k : IF ShapeTypes[k] \in DOMAIN v4_response.shape_type_counts
                        THEN v4_response.shape_type_counts[ShapeTypes[k]] ELSE 0,
             1, Len(ShapeTypes))

\* C12: after V4Cortex::process shape_count is the number of detectors,
\* over all positions and types, with activation > 5.0; it is the sum of
\* the per-type counts of shape_type_counts; it is at least the number of
\* populated shape-map cells, and greater whenever two or more detectors at
\* one position exceed 5.0.
C12_ShapeCountTalliesDetectors ==
    pc = "process" =>
        /\ v4_response.shape_count = Cardinality(ShapesAbove)
        /\ v4_response.shape_count = TypeCountsSum
        /\ \A shape_type \in DOMAIN v4_response.shape_type_counts :
              v4_response.shape_type_counts[shape_type]
                 = Cardinality({i \in ShapesAbove :
                                   v4_cortex.shape_detectors[i].shape_type = shape_type})
        /\ v4_response.shape_count >= Cardinality(PopulatedShapeCells)
        /\ (\E p \in Pixels(v4_cortex.width, v4_cortex.height) :
               Cardinality(ShapeDetectorsOn(p) \cap ShapesAbove) >= 2)
           => v4_response.shape_count > Cardinality(PopulatedShapeCells)

\* a processed response where several detectors of one position exceed 5.0
\* and some position has exactly one that does: the count is greater than
\* the number of populated cells, which is not 0
C12_Witness ==
    /\ pc = "process"
    /\ \E p \in Pixels(v4_cortex.width, v4_cortex.height) :
          Cardinality(ShapeDetectorsOn(p) \cap ShapesAbove) >= 2
    /\ \E p \in Pixels(v4_cortex.width, v4_cortex.height) :
          Cardinality(ShapeDetectorsOn(p) \cap ShapesAbove) = 1
    /\ Cardinality(DOMAIN v4_response.shape_type_counts) >= 2
    /\ v4_response.shape_count > Cardinality(PopulatedShapeCells)

-----------------------------------------------------------------------------
(* Claims about the V1 cortex                                               *)

\* the greatest column activation among the columns at a position
StrongestColumnActivation(pos) ==
    SetMax({max_activation(v1_cortex.columns[i]) : i \in ColumnsGroupedAt(v1_cortex, pos)})

\* the positions of the grid at which V1Cortex::new placed columns
ColumnGridPositions ==
    {<<v1_cortex.columns[i].neurons[1].x, v1_cortex.columns[i].neurons[1].y>> :
        i \in 1 .. Len(v1_cortex.columns)}

\* C13: the orientation map is populated only at column-grid positions; a
\* column-grid position holds an orientation exactly when the highest column
\* activation among its columns is above 0.1, and then the orientation of a
\* column of that highest activation; the map is the same whatever the order
\* in which the position grouping is iterated
C13_OrientationMapHoldsDominant ==
    pc = "orientation_map" =>
        /\ \A y \in 0 .. v1_cortex.height - 1, x \in 0 .. v1_cortex.width - 1 :
              IF <<x, y>> \in ColumnGridPositions
              THEN /\ orientation_map[y][x] # <<>>
                          <=> StrongestColumnActivation(<<x, y>>) > ActivationUnit \div 10
                   /\ orientation_map[y][x] # <<>> =>
                          \E i \in ColumnsGroupedAt(v1_cortex, <<x, y>>) :
                              /\ v1_cortex.columns[i].orientation = orientation_map[y][x][1]
                              /\ max_activation(v1_cortex.columns[i])
                                     = StrongestColumnActivation(<<x, y>>)
              ELSE orientation_map[y][x] = <<>>
        /\ \A order \in TriedOrders(ColumnPositions(v1_cortex)) :
              orientation_map_in(v1_cortex, order) = orientation_map

\* an orientation map of several column positions, one of them populated and
\* one left empty because its columns are at or below 0.1, beside a position
\* without columns
C13_Witness ==
    /\ pc = "orientation_map"
    /\ Cardinality(ColumnGridPositions) >= 2
    /\ \E pos \in ColumnGridPositions : orientation_map[pos[2]][pos[1]] # <<>>
    /\ \E pos \in ColumnGridPositions :
          /\ orientation_map[pos[2]][pos[1]] = <<>>
          /\ StrongestColumnActivation(pos) > 0
    /\ \E y \in 0 .. v1_cortex.height - 1, x \in 0 .. v1_cortex.width - 1 :
          <<x, y>> \notin ColumnGridPositions

-----------------------------------------------------------------------------
(* Claims about the returned contours                                       *)

\* a cortex without corner detectors for the field of the edge map
TracingCortex ==
    [corner_detectors |-> <<>>,
     contour_detector |-> NewV2ContourDetector(0, PathLength, Unit \div 2),
     width |-> GridWidth(edge_map), height |-> GridHeight(edge_map),
     failure |-> "none"]

\* the step ends a trace (trace_contour returns to detect_contours)
TraceEnds == tracer.pc = "trace" /\ tracer'.pc = "scan"

\* C14: every contour detect_contours returns is non-empty and has at least
\* path_length (3) pixels; a trace that ends shorter is not returned, a trace
\* of 3 or more pixels is; and contour_count, like the activation / 10, is
\* the number of contours returned
C14_ReturnedContoursAreLongEnough ==
    [][/\ \A c \in 1 .. Len(tracer'.contours) :
              tracer'.contours[c] # <<>> /\ Len(tracer'.contours[c]) >= 3
       /\ TraceEnds =>
              IF Len(tracer.contour) < 3
              THEN tracer'.contours = tracer.contours
              ELSE tracer'.contours = Append(tracer.contours, tracer.contour)
       /\ ~TraceEnds => tracer'.contours = tracer.contours
       /\ (tracer'.pc = "done" /\ GridHeight(edge_map) > 0) =>
              tracer'.activation = Len(tracer'.contours) * 10 * Unit
       /\ (tracer'.pc = "done" /\ GridWidth(edge_map) * GridHeight(edge_map) <= MaxW * MaxH) =>
              LET response == v2_process(TracingCortex, <<>>, edge_map).response
              IN  /\ response.contours = tracer'.contours
                  /\ response.contour_count = Len(tracer'.contours)]_vars

\* a call that has returned a contour and dropped a shorter trace: a pixel
\* is marked visited beyond those of the contours
C14_Witness ==
    /\ tracer.pc = "done"
    /\ Len(tracer.contours) >= 1
    /\ Cardinality(VisitedPixels) > TotalLen(tracer.contours)

\* two pixels are distinct 8-connected neighbours
Adjacent8(p, q) ==
    /\ p # q
    /\ Abs(p[1] - q[1]) <= 1
    /\ Abs(p[2] - q[2]) <= 1

\* C15: every pixel of a contour (returned, or being traced) lies inside the
\* grid of the edge map, and any two consecutive pixels of a contour are
\* distinct 8-connected neighbours
C15_ContoursAreConnectedPaths ==
    \A c \in 1 .. Len(AllTraces) :
        /\ \A k \in 1 .. Len(AllTraces[c]) :
              InGrid(AllTraces[c][k][1], AllTraces[c][k][2],
                     GridWidth(edge_map), GridHeight(edge_map))
        /\ \A k \in 1 .. Len(AllTraces[c]) - 1 :
              Adjacent8(AllTraces[c][k], AllTraces[c][k + 1])

\* a returned contour that runs along the border of the grid, with a
\* diagonal step and a straight one
C15_Witness ==
    /\ tracer.pc = "done"
    /\ \E c \in 1 .. Len(tracer.contours) :
          /\ \E k \in 1 .. Len(tracer.contours[c]) - 1 :
                /\ tracer.contours[c][k][1] # tracer.contours[c][k + 1][1]
                /\ tracer.contours[c][k][2] # tracer.contours[c][k + 1][2]
          /\ \E k \in 1 .. Len(tracer.contours[c]) - 1 :
                tracer.contours[c][k][2] = tracer.contours[c][k + 1][2]
          /\ \E k \in 1 .. Len(tracer.contours[c]) :
                tracer.contours[c][k][1] = GridWidth(edge_map) - 1

-----------------------------------------------------------------------------
(* Claims about the stages of the pathway                                   *)

\* C16: one process call of the pathway runs the stages Edge, Orientation,
\* Corner/Contour and Shape in this order, and the response it returns holds
\* the outputs of all four: the edge map, the orientation map, the corner
\* map with the contours, and the shape map with the shape counts
C16_ResponseHoldsFourStages ==
    pc = "process" =>
        /\ edge_map = create_edge_map(ganglion_layer)
        /\ orientation_map = orientation_map_of(v1_cortex)
        /\ v2_response # <<>>
        /\ v4_response # <<>>

-----------------------------------------------------------------------------
(* Claims about reused layers                                               *)

\* the ganglion layer as GanglionLayer::new made it
FreshGanglionLayer ==
    [ganglion_layer EXCEPT !.cells =
        [i \in 1 .. Len(ganglion_layer.cells) |->
            NewGanglionCell(ganglion_layer.cells[i].id, ganglion_layer.cells[i].cell_type,
                            ganglion_layer.cells[i].x, ganglion_layer.cells[i].y,
                            ganglion_layer.cells[i].center_radius_x2,
                            ganglion_layer.cells[i].surround_radius_x2)]]

\* C17: whatever images a reused GanglionLayer has processed, the edge map
\* after process_image + create_edge_map on the last image is the edge map a
\* fresh layer makes of the last image alone, also when the last image has
\* no rows and an earlier one had
C17_ReusedLayerEqualsFreshLayer ==
    pc = "create_edge_map" =>
        edge_map = create_edge_map(process_image(FreshGanglionLayer, image))

-----------------------------------------------------------------------------
(* Claims about the neuron                                                  *)

\* the step is a call of generate_action_potential
Generates == pc = "integrated" /\ pc' = "step"

\* C19: generate_action_potential returns true exactly when the neuron is
\* not refractory and its potential is at or above THRESHOLD (-55 mV); when
\* it fires the potential becomes ACTION_POTENTIAL_PEAK (30 mV), the neuron
\* becomes refractory and the time of the call is the last spike recorded;
\* when it does not fire and is not refractory, the spike history is
\* unchanged and the axon signal is cleared
C19_FiresExactlyAtThresholdWhenNotRefractory ==
    [][Generates =>
          /\ fired' = "true" <=> (/\ ~the_neuron.is_refractory
                                  /\ the_neuron.soma_potential >= -55 * Unit)
          /\ fired' = "true" =>
                /\ the_neuron'.soma_potential = 30 * Unit
                /\ the_neuron'.is_refractory
                /\ the_neuron'.spike_history # <<>>
                /\ the_neuron'.spike_history[Len(the_neuron'.spike_history)] = time_ms
          /\ (fired' = "false" /\ ~the_neuron.is_refractory) =>
                /\ the_neuron'.spike_history = the_neuron.spike_history
                /\ the_neuron'.axon_signal = <<>>]_vars

\* the neuron has just fired one spike interval after its spike before, and
\* the spike history, full, has dropped its oldest spike
C19_Witness ==
    /\ fired = "true"
    /\ pc = "step"
    /\ Len(the_neuron.spike_history) = MAX_SPIKE_HISTORY
    /\ the_neuron.spike_history[MAX_SPIKE_HISTORY] = time_ms - 1
    /\ the_neuron.spike_history[MAX_SPIKE_HISTORY - 1] = time_ms - 1 - SpikeInterval
    /\ the_neuron.spike_history[1] > 0

-----------------------------------------------------------------------------
(* Claims about the map a trace follows                                     *)

\* C20: a pixel is appended to a trace after its seed only if its raw
\* (undilated) edge value is above 0.01, so a pixel whose raw edge value is 0
\* is never appended; the dilated copy only decides where a trace starts
C20_TraceFollowsRawEdgeValues ==
    \A c \in 1 .. Len(AllTraces) :
        \A k \in 2 .. Len(AllTraces[c]) :
            edge_map[AllTraces[c][k][2]][AllTraces[c][k][1]] > FollowThreshold

-----------------------------------------------------------------------------
(* Claims about the features of a vertical bar                              *)

-----------------------------------------------------------------------------
(* Claims about the choice of the next pixel of a trace                     *)

\* the in-bounds, unvisited 8-neighbours of the current pixel whose value in
\* the map the tracer consults is above 0.01
EligibleNeighbours ==
    {p \in Pixels(GridWidth(tracer.dilated_map), GridHeight(tracer.dilated_map)) :
        /\ Adjacent8(p, tracer.current)
        /\ ~tracer.visited[p[2]][p[1]]
        /\ tracer.dilated_map[p[2]][p[1]] > 100}

\* the place of a neighbour in the scan dy = -1, 0, 1 (outer), dx = -1, 0, 1
ScanRank(p) ==
    3 * (p[2] - tracer.current[2] + 1) + (p[1] - tracer.current[1] + 1)

\* the neighbours of the largest value
StrongestNeighbours ==
    {p \in EligibleNeighbours :
        \A q \in EligibleNeighbours :
            tracer.dilated_map[q[2]][q[1]] <= tracer.dilated_map[p[2]][p[1]]}

\* C21: at every step of a trace the appended pixel has the largest value,
\* in the map the tracer consults, among the unvisited in-bounds eligible
\* 8-neighbours of the current pixel, and among neighbours of that value it
\* is the first of the scan dy = -1, 0, 1 (outer), dx = -1, 0, 1 (inner);
\* a step that finds no eligible neighbour ends the trace, and a step that
\* finds one within the 200 iterations appends exactly one pixel
C21_AppendsFirstStrongestNeighbour ==
    [][tracer.pc = "trace" =>
          IF EligibleNeighbours = {}
          THEN /\ tracer'.pc = "scan"
               /\ tracer'.visited = tracer.visited
          ELSE IF tracer.iter >= 200
          THEN tracer'.pc = "scan"
          ELSE /\ tracer'.pc = "trace"
               /\ Len(tracer'.contour) = Len(tracer.contour) + 1
               /\ SubSeq(tracer'.contour, 1, Len(tracer.contour)) = tracer.contour
               /\ tracer'.current = tracer'.contour[Len(tracer'.contour)]
               /\ tracer'.current \in StrongestNeighbours
               /\ \A q \in StrongestNeighbours :
                      ScanRank(tracer'.current) <= ScanRank(q)]_vars

\* a trace has just appended a pixel where another neighbour of the pixel
\* before, still unvisited, has the same value, comes later in the scan and
\* lies further left, and a weaker eligible neighbour comes earlier in the scan
C21_Witness ==
    /\ tracer.pc = "trace"
    /\ Len(tracer.contour) >= 2
    /\ LET before == tracer.contour[Len(tracer.contour) - 1]
           value(p) == tracer.dilated_map[p[2]][p[1]]
           rank(p) == 3 * (p[2] - before[2] + 1) + (p[1] - before[1] + 1)
           others == {p \in Pixels(GridWidth(tracer.dilated_map),
                                   GridHeight(tracer.dilated_map)) :
                         /\ Adjacent8(p, before)
                         /\ ~tracer.visited[p[2]][p[1]]
                         /\ value(p) > 100}
       IN  /\ \E q \in others :
                 /\ value(q) = value(tracer.current)
                 /\ rank(q) > rank(tracer.current)
                 /\ q[1] < tracer.current[1]
           /\ \E r \in others :
                 /\ value(r) < value(tracer.current)
                 /\ rank(r) < rank(tracer.current)

-----------------------------------------------------------------------------
(* Claims about the weights of a V1 neuron                                  *)

\* the neurons of the 0 degree columns, as <<column, neuron>> numbers
ZeroDegreeNeurons ==
    {cn \in (1 .. Len(v1_cortex.columns)) \X {1, 2} :
        v1_cortex.columns[cn[1]].orientation = 0}

\* the pixels of the edge map at the offsets (+r, 0) and (-r, 0) from the
\* neuron, r its receptive field size: their parallel component is r, their
\* perpendicular component 0, and they lie within the Euclidean radius
RimPixels(cn) ==
    LET neuron == v1_cortex.columns[cn[1]].neurons[cn[2]]
    IN  {p \in Pixels(GridWidth(edge_map), GridHeight(edge_map)) :
            /\ p[2] = neuron.y
            /\ Abs(p[1] - neuron.x) = neuron.receptive_field_size}

\* C23: an in-bounds offset within the Euclidean radius whose perpendicular
\* component is < 2 and whose parallel component is <= the radius has a
\* non-zero weight, so for a neuron of a 0 degree column an edge at the
\* offset (+r, 0) or (-r, 0) contributes its value to the response: the
\* activation computed from an edge map with an edge there is positive
C23_RimOffsetContributes ==
    (pc = "process_edges" /\ edge_map # <<>>) =>
        \A cn \in ZeroDegreeNeurons :
            (\E p \in RimPixels(cn) : edge_map[p[2]][p[1]] > 0) =>
                v1_cortex.columns[cn[1]].neurons[cn[2]].activation > 0

-----------------------------------------------------------------------------
(* Claims about the feature strengths                                       *)

\* the columns of the V1 cortex whose angle, in tenths of a degree, is one
\* of `angles`
ColumnsOfAngles(angles) ==
    {i \in 1 .. Len(v1_cortex.columns) : v1_cortex.columns[i].orientation \in angles}

\* the sum of the max activations of the columns in S
RECURSIVE MaxActivationSum(_)
MaxActivationSum(S) ==
    IF S = {} THEN 0
    ELSE LET i == CHOOSE j \in S : TRUE
         IN  max_activation(v1_cortex.columns[i]) + MaxActivationSum(S \ {i})

\* C24: extract_features adds the max activation of every orientation
\* column to exactly one accumulator chosen by the angle of the column: the
\* 0 degree columns (angle < 22.5 or > 157.5) to vertical_strength, the 90
\* degree columns (angle in [67.5, 112.5]) to horizontal_strength, the 45
\* and 135 degree columns to diagonal_strength; then diagonal_strength is
\* divided by 2.25, and horizontal and vertical are left unscaled
C24_StrengthsByAngleBand ==
    pc = "process" =>
        /\ \A i \in 1 .. Len(v1_cortex.columns) :
              v1_cortex.columns[i].orientation \in {0, 450, 900, 1350}
        /\ features.vertical_strength = MaxActivationSum(ColumnsOfAngles({0}))
        /\ features.horizontal_strength = MaxActivationSum(ColumnsOfAngles({900}))
        /\ features.diagonal_strength =
              (MaxActivationSum(ColumnsOfAngles({450, 1350})) * 100) \div 225
        /\ features.total_activation =
              MaxActivationSum(ColumnsOfAngles({0}))
              + MaxActivationSum(ColumnsOfAngles({900}))
              + MaxActivationSum(ColumnsOfAngles({450, 1350}))

\* an image has been processed to which several columns of each of the four
\* angles responded, the 0 degree columns otherwise than the 90 degree columns
C24_Witness ==
    /\ pc = "process"
    /\ \A angle \in {0, 450, 900, 1350} :
          Cardinality({i \in ColumnsOfAngles({angle}) :
                          max_activation(v1_cortex.columns[i]) > 0}) > 1
    /\ \A angle \in {0, 450, 900, 1350} :
          MaxActivationSum(ColumnsOfAngles({angle})) > 0
    /\ features.vertical_strength # features.horizontal_strength
    /\ features.diagonal_strength > 0
    /\ features.diagonal_strength < MaxActivationSum(ColumnsOfAngles({450, 1350}))

-----------------------------------------------------------------------------
(* Claims about the dominant orientation                                    *)

\* C25: dominant_orientation favours horizontal and vertical over diagonal
\* by 6%: for all non-negative strengths the label is "Diagonal" only if
\* diagonal_strength >= 1.06 x max(horizontal_strength, vertical_strength),
\* and whenever 1.06 x max(horizontal_strength, vertical_strength) >
\* diagonal_strength the label is "Horizontal" or "Vertical"
C25_SixPercentBiasForHV ==
    pc = "dominant_orientation" =>
        LET strongest == Max2(features.horizontal_strength, features.vertical_strength)
        IN  /\ label = "Diagonal" => features.diagonal_strength * 100 >= 106 * strongest
            /\ 106 * strongest > features.diagonal_strength * 100 =>
                  label \in {"Horizontal", "Vertical"}

-----------------------------------------------------------------------------
(* Claims about the circle detector                                         *)

\* the circle detectors of the cortex
CircleDetectors ==
    {i \in 1 .. Len(v4_cortex.shape_detectors) :
        v4_cortex.shape_detectors[i].shape_type = "Circle"}

\* the primary circle condition for detector i on the response processed:
\* contour pixels >= 20, corner ratio < 0.08, density > 0.08
PrimaryCircleCondition(i) ==
    LET detector == v4_cortex.shape_detectors[i]
        contour_pixels == ContourPixels(detector, v2_response)
        corner_count == CornersInWindow(detector, v2_response)
    IN  /\ contour_pixels >= 20
        /\ corner_count * 100 < 8 * contour_pixels
        /\ contour_pixels * 100
              > 8 * detector.receptive_field_size * detector.receptive_field_size

\* C26: whenever the primary circle condition does not hold but the window
\* of a circle detector holds a contour fragment of 6 or more pixels, at
\* most 3 corners and fewer than 35 contour pixels in all, the detector
\* returns a positive activation
C26_CircleFallbackIsPositive ==
    pc = "process" =>
        \A i \in CircleDetectors :
            LET detector == v4_cortex.shape_detectors[i]
            IN  (/\ ~PrimaryCircleCondition(i)
                 /\ LongestContour(detector, v2_response) >= 6
                 /\ CornersInWindow(detector, v2_response) <= 3
                 /\ ContourPixels(detector, v2_response) < 35)
                => detector.activation > 0

-----------------------------------------------------------------------------
(* Claims about the ON and the OFF cell of a position                       *)

\* the pairs <<i, j>> of cells, i before j, that share a position
CellPairsOfLayer ==
    {ij \in (1 .. Len(ganglion_layer.cells)) \X (1 .. Len(ganglion_layer.cells)) :
        /\ ij[1] < ij[2]
        /\ ganglion_layer.cells[ij[1]].x = ganglion_layer.cells[ij[2]].x
        /\ ganglion_layer.cells[ij[1]].y = ganglion_layer.cells[ij[2]].y}

\* C27: GanglionLayer places exactly one ON-center and one OFF-center cell
\* at each position; after any process_image call the two hold the same
\* center and surround averages, their responses (center - surround for the
\* ON cell, surround - center for the OFF cell) are exact negations of each
\* other, each firing rate is its response x 100 rectified at 0, and the two
\* firing rates are never both positive
C27_OnAndOffAreNegations ==
    /\ Cardinality(CellPairsOfLayer) * 2 = Len(ganglion_layer.cells)
    /\ \A ij \in CellPairsOfLayer :
          LET on == ganglion_layer.cells[ij[1]]
              off == ganglion_layer.cells[ij[2]]
          IN  /\ on.cell_type = "OnCenter"
              /\ off.cell_type = "OffCenter"
              /\ on.center_activation = off.center_activation
              /\ on.surround_activation = off.surround_activation
              /\ pc # "new" =>
                    /\ on.output_rate
                          = Max2((on.center_activation - on.surround_activation) * 100, 0)
                    /\ off.output_rate
                          = Max2((off.surround_activation - off.center_activation) * 100, 0)
                    /\ on.output_rate = 0 \/ off.output_rate = 0
                    /\ ~(on.output_rate > 0 /\ off.output_rate > 0)

\* an image has been processed after which the ON cell of one position
\* fires and its OFF cell is silent, and the OFF cell of another position
\* fires and its ON cell is silent
C27_Witness ==
    /\ pc = "process_image"
    /\ \E ij \in CellPairsOfLayer :
          /\ ganglion_layer.cells[ij[1]].output_rate > 0
          /\ ganglion_layer.cells[ij[2]].output_rate = 0
    /\ \E ij \in CellPairsOfLayer :
          /\ ganglion_layer.cells[ij[1]].output_rate = 0
          /\ ganglion_layer.cells[ij[2]].output_rate > 0

-----------------------------------------------------------------------------
(* Claims about the L and the T detector of a position                      *)

\* the L-junction detectors whose activation exceeds the threshold
ActiveLDetectors ==
    {i \in LDetectors : v2_cortex.corner_detectors[i].activation > CornerThreshold}

\* C28: whenever the L-junction detector of a position has activation
\* > 1.0, the detector that follows it is the T-junction detector of the
\* same position, its activation is 0.8 x the L activation and is > 1.0
\* too; so after V2Cortex::process corner_count is at least twice the
\* number of positions whose L detector passed, and the corner map cell of
\* such a position, written by T after L, never shows the L-junction type
C28_TJunctionFollowsLJunction ==
    /\ \A i \in ActiveLDetectors :
          /\ i + 1 <= Len(v2_cortex.corner_detectors)
          /\ LET l == v2_cortex.corner_detectors[i]
                 t == v2_cortex.corner_detectors[i + 1]
             IN  /\ t.corner_type = "TJunction"
                 /\ t.x = l.x /\ t.y = l.y
                 /\ t.activation = (l.activation * 8) \div 10
                 /\ t.activation > CornerThreshold
                 /\ pc = "process" =>
                       /\ {i, i + 1} \subseteq ActiveAt(<<l.x, l.y>>)
                       /\ v2_response.corner_map[l.y][l.x]
                             \in {"TJunction", "XJunction", "YJunction"}
    /\ pc = "process" =>
          v2_response.corner_count >= 2 * Cardinality(ActiveLDetectors)

\* a processed frame where an L detector holds the smallest score above
\* the threshold, 2.0, its T detector holds 1.6, and the cell shows T
C28_Witness ==
    /\ pc = "process"
    /\ \E i \in ActiveLDetectors :
          LET l == v2_cortex.corner_detectors[i]
          IN  /\ l.activation = 2 * Unit
              /\ v2_cortex.corner_detectors[i + 1].activation = (16 * Unit) \div 10
              /\ v2_response.corner_map[l.y][l.x] = "TJunction"
              /\ v2_response.corner_count >= 2

-----------------------------------------------------------------------------
(* Claims about equal horizontal and vertical strengths                     *)

\* C29: when horizontal_strength == vertical_strength the label of
\* dominant_orientation is never "Horizontal": it is "Vertical" if
\* 1.06 x vertical_strength > diagonal_strength and vertical_strength > 0,
\* else "Diagonal"; and when all three strengths are 0 the label is
\* "Diagonal"
C29_EqualStrengthsNeverHorizontal ==
    pc = "dominant_orientation" =>
        /\ features.horizontal_strength = features.vertical_strength =>
              /\ label # "Horizontal"
              /\ label = IF /\ 106 * features.vertical_strength
                                  > features.diagonal_strength * 100
                            /\ features.vertical_strength > 0
                         THEN "Vertical"
                         ELSE "Diagonal"
        /\ (/\ features.horizontal_strength = 0
            /\ features.vertical_strength = 0
            /\ features.diagonal_strength = 0) => label = "Diagonal"

\* the parts of C29 that carry no product: with equal horizontal and
\* vertical strengths the label is not "Horizontal", and with three zero
\* strengths it is "Diagonal"
EqualStrengthsLabel ==
    pc = "dominant_orientation" =>
        /\ features.horizontal_strength = features.vertical_strength =>
              label # "Horizontal"
        /\ (/\ features.horizontal_strength = 0
            /\ features.vertical_strength = 0
            /\ features.diagonal_strength = 0) => label = "Diagonal"

-----------------------------------------------------------------------------
(* Claims about the refractory period                                       *)

\* the time of the last spike recorded
LastSpike(neuron) == neuron.spike_history[Len(neuron.spike_history)]

\* C30: after a neuron fires, the next REFRACTORY_PERIOD_MS (2) calls of
\* generate_action_potential return false whatever input was integrated in
\* between: the first leaves the neuron refractory and its potential as
\* integrated, the second clears the refractory flag and resets the
\* potential to RESTING_POTENTIAL; so under NeuralNetwork::step a spike
\* comes at least 3 time steps after the spike before it
C30_RefractoryForTwoCalls ==
    [][Generates =>
          /\ fired' = "true" =>
                /\ the_neuron'.is_refractory
                /\ the_neuron'.refractory_timer = 2
                /\ Len(the_neuron.spike_history) > 0 =>
                      time_ms - LastSpike(the_neuron) >= 3
          /\ the_neuron.is_refractory =>
                /\ fired' = "false"
                /\ the_neuron'.spike_history = the_neuron.spike_history
                /\ the_neuron.refractory_timer \in {1, 2}
                /\ LastSpike(the_neuron) = time_ms - (3 - the_neuron.refractory_timer)
                /\ the_neuron.refractory_timer = 2 =>
                      /\ the_neuron'.is_refractory
                      /\ the_neuron'.refractory_timer = 1
                      /\ the_neuron'.soma_potential = the_neuron.soma_potential
                /\ the_neuron.refractory_timer = 1 =>
                      /\ ~the_neuron'.is_refractory
                      /\ the_neuron'.refractory_timer = 0
                      /\ the_neuron'.soma_potential = -70 * Unit]_vars

\* the second call after a spike has just returned false: the neuron, which
\* spiked three ticks before the tick to come, is no longer refractory and
\* rests at RESTING_POTENTIAL
C30_Witness ==
    /\ pc = "step"
    /\ fired = "false"
    /\ Len(the_neuron.spike_history) > 0
    /\ LastSpike(the_neuron) = time_ms - 3
    /\ ~the_neuron.is_refractory
    /\ the_neuron.refractory_timer = 0
    /\ the_neuron.soma_potential = RESTING_POTENTIAL

\* a call is about to be made on a refractory neuron that has integrated
\* input since its spike, enough to stand above the peak
RefractoryWithInputIntegrated ==
    /\ pc = "integrated"
    /\ the_neuron.is_refractory
    /\ the_neuron.refractory_timer = 1
    /\ the_neuron.soma_potential > ACTION_POTENTIAL_PEAK

=============================================================================
